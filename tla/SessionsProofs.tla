---------------------------- MODULE SessionsProofs ----------------------------
(***************************************************************************)
(* Proofs about Sessions for any users, devices, sessions and calls.       *)
(***************************************************************************)
EXTENDS Sessions, TLAPS

(***************************************************************************)
(* The inductive invariant.                                                *)
(***************************************************************************)
FreshPhases == {"idle", "started", "loaded"}
AskingPhases == {"started", "loaded", "opened"}
RefreshPhases == {"started", "loaded", "expired"}
SessionLivePhases == {"started", "loaded", "opened", "expired"}
UserKinds == {"login", "refresh", "setActive", "setBlocked", "deleteUser", "addSession",
              "addDevice", "moveDevice"}
SessionKinds == {"refresh", "logout", "editSession", "endSession"}
DeviceKinds == {"addDevice", "moveDevice", "dropDevice"}

\* A call has been sent what its kind calls for; one past its checks was not barred, and
\* a push found no device that was silent.
SessionCallSound(c) ==
    /\ c.phase \in SessionLivePhases =>
           /\ c.kind \in AllAuthKinds
           /\ c.kind \in UserKinds => c.user \in People
           /\ c.kind \in SessionKinds => c.session \in SessionIds
           /\ c.kind \in DeviceKinds => c.device \in Devices
    /\ c.phase = "loaded" /\ c.kind \in Switches => c.seen \in Person
    /\ c.barred => c.kind \in {"login", "refresh"}
    /\ c.phase \in {"loaded", "opened", "issued"} => ~c.barred
    /\ c.cut => c.kind = "refresh" /\ c.phase # "issued"
    /\ c.kind = "push" /\ c.phase = "loaded" => c.found \cap c.quiet = {}

\* Who has been barred ever since is barred now and still has the session; a session
\* that ended under a refresh is still gone, or has expired and is yet to be found.
Stands(c) ==
    /\ c.phase = "started" /\ c.barred =>
           /\ ~MayLogin(person[c.user])
           /\ c.kind = "refresh" /\ session[c.session] # None => session[c.session].user = c.user
    /\ c.kind = "refresh" /\ c.phase = "loaded" /\ c.cut => session[c.session] = None
    /\ c.kind = "refresh" /\ c.phase = "started" /\ c.cut /\ session[c.session] # None =>
           session[c.session].expired

\* The session that is to bear the name of a call is not there and nobody knows of it.
SessionNamesFresh ==
    \A n \in AuthCalls : authCall[n].phase \in FreshPhases =>
        session[n] = None /\ \A q \in AuthCalls : authCall[q].session # n

SilentSound ==
    \A d \in silent :
        /\ device[d] = None
        /\ \A q \in AuthCalls : authCall[q].phase \in AskingPhases => ~Asks(authCall[q], d)

SessionInv ==
    /\ SessionTypeOK
    /\ \A r \in AuthCalls : SessionCallSound(authCall[r]) /\ Stands(authCall[r])
    /\ SessionNamesFresh
    /\ SilentSound

(***************************************************************************)
(* Lemmas.                                                                 *)
(***************************************************************************)
\* What another call's step leaves of a call.
Unmoved(c, next) ==
    /\ next.phase = c.phase /\ next.kind = c.kind /\ next.user = c.user
    /\ next.session = c.session /\ next.device = c.device /\ next.seen = c.seen
    /\ next.found = c.found /\ next.quiet = c.quiet
    /\ next.barred => c.barred
    /\ next.cut => c.cut \/ (c.kind = "refresh" /\ c.phase \in RefreshPhases)

LEMMA SessionCallFacts ==
    ASSUME SessionInv, NEW r \in AuthCalls
    PROVE  authCall[r] \in AuthCall /\ SessionCallSound(authCall[r]) /\ Stands(authCall[r])
BY DEF SessionInv, SessionTypeOK

LEMMA SessionNoRow ==
    /\ None \notin Person /\ None \notin SessionRow /\ None \notin SessionIds
    /\ None \notin People /\ None \notin Devices
BY SessionAssumption, ScopeAssumption

LEMMA OverSound ==
    ASSUME NEW c \in AuthCall, SessionCallSound(c), NEW phase \in {"issued", "done", "refused"},
           phase = "issued" => ~c.barred /\ ~c.cut
    PROVE  LET over == Over(c, phase)
           IN  /\ over \in AuthCall /\ SessionCallSound(over) /\ Stands(over)
               /\ over.phase = phase /\ over.session = None
<1>. DEFINE over == Over(c, phase)
<1>1. over \in AuthCall
    BY DEF Over, IdleAuthCall, AuthCall, AuthPhases
<1>2. /\ over.phase = phase /\ over.session = None /\ over.kind = c.kind
      /\ over.barred = c.barred /\ over.cut = c.cut
    BY DEF Over, IdleAuthCall
<1>. HIDE DEF over
<1>3. SessionCallSound(over) /\ Stands(over)
    BY <1>2 DEF SessionCallSound, Stands, SessionLivePhases, RefreshPhases
<1>4. QED
    BY <1>1, <1>2, <1>3 DEF over

LEMMA UnmovedSound ==
    ASSUME NEW c, NEW next, SessionCallSound(c), Unmoved(c, next)
    PROVE  SessionCallSound(next)
BY DEF SessionCallSound, Unmoved, RefreshPhases

\* What an action has to establish.
LEMMA SessionKeeps ==
    ASSUME SessionInv, NEW r \in AuthCalls, SessionTypeOK', SessionCallSound(authCall'[r]),
           \A q \in AuthCalls \ {r} : Unmoved(authCall[q], authCall'[q]),
           \A q \in AuthCalls : Stands(authCall[q])',
           \A s \in SessionIds : s # r /\ session'[s] # None => session[s] # None,
           authCall'[r].phase \in FreshPhases =>
               authCall[r].phase \in FreshPhases /\ session'[r] = session[r],
           \/ authCall'[r].session \in {None, authCall[r].session}
           \/ authCall'[r].session \in Sessions
           \/ authCall'[r].session = r /\ authCall'[r].phase \notin FreshPhases,
           \A d \in silent' :
               /\ device'[d] = None
               /\ authCall'[r].phase \in AskingPhases => ~Asks(authCall'[r], d)
               /\ \A q \in AuthCalls \ {r} :
                      authCall[q].phase \in AskingPhases => ~Asks(authCall[q], d)
    PROVE  SessionInv'
<1>1. \A q \in AuthCalls : SessionCallSound(authCall'[q])
    BY UnmovedSound, SessionCallFacts
<1>2. SessionNamesFresh'
    <2>. SUFFICES ASSUME NEW n \in AuthCalls, authCall'[n].phase \in FreshPhases
                  PROVE  session'[n] = None /\ \A q \in AuthCalls : authCall'[q].session # n
        BY DEF SessionNamesFresh
    <2>1. authCall[n].phase \in FreshPhases
        BY DEF Unmoved
    <2>2. session[n] = None /\ \A q \in AuthCalls : authCall[q].session # n
        BY <2>1 DEF SessionInv, SessionNamesFresh
    <2>3. session'[n] = None
        BY <2>2 DEF SessionIds
    <2>4. ASSUME NEW q \in AuthCalls PROVE authCall'[q].session # n
        <3>1. CASE q # r
            BY <3>1, <2>2 DEF Unmoved
        <3>2. CASE q = r
            <4>1. n # None /\ n \notin Sessions
                BY <2>2, SessionNoRow DEF Sessions, SessionIds
            <4>2. QED
                BY <3>2, <4>1, <2>2
        <3>3. QED
            BY <3>1, <3>2
    <2>5. QED
        BY <2>3, <2>4
<1>3. SilentSound'
    <2>. SUFFICES ASSUME NEW d \in silent', NEW q \in AuthCalls,
                         authCall'[q].phase \in AskingPhases
                  PROVE  ~Asks(authCall'[q], d)
        BY DEF SilentSound, Asks
    <2>1. QED
        BY DEF Unmoved, Asks
<1>4. QED
    BY <1>1, <1>2, <1>3 DEF SessionInv, SessionCallSound

(***************************************************************************)
(* The steps that only change the state of their call.                     *)
(***************************************************************************)
LEMMA SessionCallMoves ==
    ASSUME SessionInv, NEW r \in AuthCalls, NEW c \in AuthCall, SessionCallSound(c), Stands(c),
           authCall' = [authCall EXCEPT ![r] = c], UNCHANGED <<person, session, device, silent>>,
           c.session \in {None, authCall[r].session},
           c.phase \in FreshPhases => authCall[r].phase \in FreshPhases,
           c.phase \in AskingPhases => /\ authCall[r].phase \in AskingPhases
                                       /\ c.kind = authCall[r].kind /\ c.device = authCall[r].device
    PROVE  SessionInv'
<1>1. authCall'[r] = c /\ \A q \in AuthCalls \ {r} : authCall'[q] = authCall[q]
    BY DEF SessionInv, SessionTypeOK
<1>2. SessionTypeOK'
    BY DEF SessionInv, SessionTypeOK
<1>3. \A q \in AuthCalls \ {r} : Unmoved(authCall[q], authCall'[q])
    BY <1>1 DEF Unmoved
<1>4. ASSUME NEW q \in AuthCalls PROVE Stands(authCall[q])'
    <2>1. Stands(authCall'[q])
        BY <1>1, SessionCallFacts
    <2>2. QED
        BY <2>1 DEF Stands
<1>5. ASSUME NEW d \in silent'
      PROVE  /\ device'[d] = None
             /\ authCall'[r].phase \in AskingPhases => ~Asks(authCall'[r], d)
             /\ \A q \in AuthCalls \ {r} : authCall[q].phase \in AskingPhases => ~Asks(authCall[q], d)
    BY <1>1 DEF SessionInv, SilentSound, Asks
<1>6. QED
    BY <1>1, <1>2, <1>3, <1>4, <1>5, SessionKeeps

LEMMA SessionReadKeeps ==
    ASSUME SessionInv, NEW r \in AuthCalls, authCall[r].phase = "started",
           NEW permits \in BOOLEAN, NEW next, AuthRead(r, permits, next),
           permits => /\ next \in AuthCall /\ SessionCallSound(next) /\ Stands(next)
                      /\ next.phase \in {"loaded", "expired"} /\ next.kind = authCall[r].kind
                      /\ next.session = authCall[r].session /\ next.device = authCall[r].device
    PROVE  SessionInv'
<1>1. CASE permits
    <2>1. authCall' = [authCall EXCEPT ![r] = next]
        BY <1>1 DEF AuthRead
    <2>2. QED
        BY <1>1, <2>1, SessionCallMoves DEF AuthRead, FreshPhases, AskingPhases
<1>2. CASE ~permits
    <2>1. authCall' = [authCall EXCEPT ![r] = Over(authCall[r], "refused")]
        BY <1>2 DEF AuthRead, SessionInv, SessionTypeOK
    <2>2. QED
        BY <2>1, OverSound, SessionCallFacts, SessionCallMoves DEF AuthRead, FreshPhases, AskingPhases
<1>3. QED
    BY <1>1, <1>2

\* A call that has been found to be in order, with what it loaded.
Loaded(c, next) ==
    /\ next \in AuthCall /\ next.phase = "loaded" /\ next.kind = c.kind /\ next.user = c.user
    /\ next.session = c.session /\ next.device = c.device
    /\ next.barred = c.barred /\ next.cut = c.cut

LEMMA LoadedSound ==
    ASSUME SessionInv, NEW r \in AuthCalls, authCall[r].phase = "started", ~authCall[r].barred,
           authCall[r].kind = "refresh" => ~authCall[r].cut,
           NEW next, Loaded(authCall[r], next),
           next.kind \in Switches => next.seen \in Person,
           next.kind = "push" => next.found \cap next.quiet = {}
    PROVE  /\ next \in AuthCall /\ SessionCallSound(next) /\ Stands(next)
           /\ next.phase \in {"loaded", "expired"} /\ next.kind = authCall[r].kind
           /\ next.session = authCall[r].session /\ next.device = authCall[r].device
<1>1. SessionCallSound(authCall[r]) /\ Stands(authCall[r])
    BY SessionCallFacts
<1>2. SessionCallSound(next)
    BY <1>1 DEF SessionCallSound, SessionLivePhases, Loaded
<1>3. Stands(next)
    BY <1>1 DEF Stands, RefreshPhases, Loaded
<1>4. QED
    BY <1>2, <1>3 DEF Loaded

LEMMA LoadBearerKeeps ==
    ASSUME SessionInv, NEW r \in AuthCalls, LoadBearer(r)
    PROVE  SessionInv'
<1>. DEFINE c == authCall[r]
            next == [c EXCEPT !.phase = "loaded", !.seen = person[c.user]]
            permits == MayLogin(person[c.user])
<1>1. c.kind = "login" /\ c.phase = "started" /\ AuthRead(r, permits, next)
    BY DEF LoadBearer, AuthStep
<1>2. c.user \in People
    BY <1>1, SessionCallFacts DEF SessionCallSound, SessionLivePhases, UserKinds
<1>3. person[c.user] \in Person \cup {None}
    BY <1>2 DEF SessionInv, SessionTypeOK
<1>4. permits => ~c.barred
    BY <1>1, SessionCallFacts DEF Stands
<1>5. permits => /\ next \in AuthCall /\ SessionCallSound(next) /\ Stands(next)
                 /\ next.phase \in {"loaded", "expired"} /\ next.kind = c.kind
                 /\ next.session = c.session /\ next.device = c.device
    <2>1. Loaded(c, next)
        BY <1>1, <1>3, SessionCallFacts DEF Loaded, AuthCall, AuthPhases
    <2>. HIDE DEF next, permits
    <2>2. QED
        BY <1>1, <1>4, <2>1, LoadedSound DEF Switches, Loaded
<1>6. permits \in BOOLEAN
    BY DEF MayLogin
<1>. HIDE DEF next, permits
<1>7. QED
    BY <1>1, <1>5, <1>6, SessionReadKeeps

LEMMA FindSessionKeeps ==
    ASSUME SessionInv, NEW r \in AuthCalls, FindSession(r)
    PROVE  SessionInv'
<1>. DEFINE c == authCall[r]
            row == session[c.session]
            gone == [c EXCEPT !.phase = "expired"]
            next == [c EXCEPT !.phase = "loaded", !.seen = person[row.user]]
            permits == row # None /\ MayLogin(person[row.user])
<1>1. c.kind = "refresh" /\ c.phase = "started"
    BY DEF FindSession, AuthStep
<1>2. c.session \in SessionIds /\ c \in AuthCall /\ SessionCallSound(c) /\ Stands(c)
    BY <1>1, SessionCallFacts DEF SessionCallSound, SessionLivePhases, SessionKinds
<1>3. row \in SessionRow \cup {None}
    BY <1>2 DEF SessionInv, SessionTypeOK
<1>4. CASE row # None /\ row.expired
    <2>1. AuthRead(r, TRUE, gone)
        BY <1>4 DEF FindSession
    <2>2. /\ gone.phase = "expired" /\ gone.kind = c.kind /\ gone.user = c.user
          /\ gone.session = c.session /\ gone.device = c.device /\ gone.seen = c.seen
          /\ gone.barred = c.barred /\ gone.cut = c.cut /\ gone \in AuthCall
        BY <1>2 DEF AuthCall, AuthPhases
    <2>. HIDE DEF gone
    <2>3. SessionCallSound(gone)
        BY <1>1, <1>2, <2>2 DEF SessionCallSound, SessionLivePhases
    <2>4. Stands(gone)
        BY <1>1, <1>2, <2>2 DEF Stands, RefreshPhases
    <2>5. QED
        BY <1>1, <2>1, <2>2, <2>3, <2>4, SessionReadKeeps
<1>5. CASE ~(row # None /\ row.expired)
    <2>1. AuthRead(r, permits, next)
        BY <1>5 DEF FindSession
    <2>2. permits => person[row.user] \in Person \cup {None} /\ ~c.barred /\ ~c.cut
        BY <1>1, <1>2, <1>3, <1>5 DEF SessionInv, SessionTypeOK, SessionRow, Stands
    <2>3. permits => /\ next \in AuthCall /\ SessionCallSound(next) /\ Stands(next)
                     /\ next.phase \in {"loaded", "expired"} /\ next.kind = c.kind
                     /\ next.session = c.session /\ next.device = c.device
        <3>1. permits => Loaded(c, next)
            BY <1>2, <2>2 DEF Loaded, AuthCall, AuthPhases
        <3>. HIDE DEF next, permits
        <3>2. QED
            BY <1>1, <2>2, <3>1, LoadedSound DEF Switches, Loaded
    <2>4. permits \in BOOLEAN
        BY DEF MayLogin
    <2>. HIDE DEF next, permits
    <2>5. QED
        BY <1>1, <2>1, <2>3, <2>4, SessionReadKeeps
<1>6. QED
    BY <1>4, <1>5

LEMMA OtherLoadsKeep ==
    ASSUME SessionInv, NEW r \in AuthCalls,
           LoadPerson(r) \/ LoadSession(r) \/ LoadDevice(r) \/ ReadDevices(r)
    PROVE  SessionInv'
<1>. DEFINE c == authCall[r]
            same == [c EXCEPT !.phase = "loaded"]
<1>1. c \in AuthCall /\ SessionCallSound(c) /\ Stands(c)
    BY SessionCallFacts
<1>2. Loaded(c, same) /\ same.seen = c.seen
    BY <1>1 DEF Loaded, AuthCall, AuthPhases
<1>3. CASE LoadPerson(r)
    <2>. DEFINE next == [c EXCEPT !.phase = "loaded", !.seen = person[c.user]]
                permits == person[c.user] # None
    <2>1. /\ c.phase = "started" /\ c.kind \in Switches \cup {"deleteUser", "addSession"}
          /\ AuthRead(r, permits, next)
        BY <1>3 DEF LoadPerson
    <2>2. c.user \in People /\ ~c.barred
        BY <1>1, <2>1 DEF SessionCallSound, SessionLivePhases, UserKinds, Switches
    <2>3. permits => Loaded(c, next) /\ next.seen \in Person
        BY <1>1, <2>2 DEF Loaded, AuthCall, AuthPhases, SessionInv, SessionTypeOK
    <2>. HIDE DEF next, permits
    <2>4. permits \in BOOLEAN
        BY DEF permits
    <2>5. QED
        BY <2>1, <2>2, <2>3, <2>4, LoadedSound, SessionReadKeeps DEF Loaded, Switches
<1>4. CASE LoadSession(r)
    <2>. DEFINE permits == c.session \in Sessions
    <2>1. /\ c.kind \in {"editSession", "endSession"} /\ c.phase = "started"
          /\ AuthRead(r, permits, same)
        BY <1>4 DEF LoadSession
    <2>. HIDE DEF same, permits
    <2>2. permits \in BOOLEAN
        BY DEF permits
    <2>3. QED
        BY <1>1, <1>2, <2>1, <2>2, LoadedSound, SessionReadKeeps DEF Loaded, Switches, SessionCallSound
<1>5. CASE LoadDevice(r)
    <2>. DEFINE permits == /\ (device[c.device] = None) <=> c.kind = "addDevice"
                           /\ c.user # None => person[c.user] # None
    <2>1. /\ c.kind \in {"addDevice", "moveDevice", "dropDevice"} /\ c.phase = "started"
          /\ AuthRead(r, permits, same)
        BY <1>5 DEF LoadDevice
    <2>2. permits \in BOOLEAN
        OBVIOUS
    <2>. HIDE DEF same, permits
    <2>3. QED
        BY <1>1, <1>2, <2>1, <2>2, LoadedSound, SessionReadKeeps DEF Loaded, Switches, SessionCallSound
<1>6. CASE ReadDevices(r)
    <2>. DEFINE found == {d \in Devices : /\ device[d] # None
                                          /\ c.user # None => device[d] = c.user}
                next == [c EXCEPT !.phase = "loaded", !.found = found, !.quiet = silent]
                permits == found # {}
    <2>1. c.kind = "push" /\ c.phase = "started" /\ AuthRead(r, permits, next)
        BY <1>6 DEF ReadDevices, AuthStep
    <2>2. /\ Loaded(c, next) /\ next.found = found /\ next.quiet = silent
          /\ next.kind = "push"
        BY <1>1, <2>1 DEF Loaded, AuthCall, AuthPhases, SessionInv, SessionTypeOK
    <2>0. found \cap silent = {}
        BY DEF SessionInv, SilentSound
    <2>. HIDE DEF next
    <2>3. permits \in BOOLEAN
        OBVIOUS
    <2>. HIDE DEF permits
    <2>4. QED
        BY <1>1, <2>0, <2>1, <2>2, <2>3, LoadedSound, SessionReadKeeps DEF Loaded, Switches, SessionCallSound
<1>7. QED
    BY <1>3, <1>4, <1>5, <1>6

\* The session to be touched is there, so that it has not ended since.
LEMMA EndsKeep ==
    ASSUME SessionInv, NEW r \in AuthCalls, StopAuthCall(r) \/ TouchSession(r)
    PROVE  SessionInv'
<1>. DEFINE c == authCall[r]
<1>1. c \in AuthCall /\ SessionCallSound(c) /\ Stands(c)
    BY SessionCallFacts
<1>2. PICK phase \in {"issued", "refused"} :
          /\ Finish(r, phase) /\ UNCHANGED <<person, session, device, silent>>
          /\ phase = "issued" => TouchSession(r)
    BY DEF StopAuthCall, TouchSession
<1>3. phase = "issued" => ~c.barred /\ ~c.cut
    BY <1>1, <1>2 DEF TouchSession, AuthStep, SessionCallSound, Stands, RefreshPhases, Sessions
<1>4. authCall' = [authCall EXCEPT ![r] = Over(c, phase)]
    BY <1>2 DEF Finish, SessionInv, SessionTypeOK
<1>5. QED
    BY <1>1, <1>2, <1>3, <1>4, OverSound, SessionCallMoves DEF FreshPhases, AskingPhases

LEMMA SessionStartKeeps ==
    ASSUME SessionInv, NEW r \in AuthCalls, StartAuthCall(r)
    PROVE  SessionInv'
<1>1. PICK kind \in AuthKinds, u \in People \cup {None}, s \in Sessions \cup {None},
           d \in Devices \cup {None}, value \in BOOLEAN \cup {Absent} :
          /\ u # None => "user" \in Needs(kind) \cup MayHave(kind)
          /\ u = None => "user" \notin Needs(kind)
          /\ (s # None) <=> "session" \in Needs(kind)
          /\ d # None => "device" \in Needs(kind) \cup MayHave(kind)
          /\ d = None => "device" \notin Needs(kind)
          /\ value # Absent => "value" \in MayHave(kind)
          /\ LET bearer == IF kind = "refresh" THEN session[s].user ELSE u
                 c == [IdleAuthCall EXCEPT !.phase = "started", !.kind = kind, !.user = bearer,
                                           !.session = s, !.device = d, !.value = value]
             IN  /\ authCall' = [authCall EXCEPT ![r] =
                        [c EXCEPT !.barred = kind \in {"login", "refresh"} /\ ~MayLogin(person[bearer]),
                                  !.cut = kind = "refresh" /\ session[s].expired]]
                 /\ silent' = IF Asks(c, d) THEN silent \ {d} ELSE silent
    BY Zenon DEF StartAuthCall
<1>. DEFINE bearer == IF kind = "refresh" THEN session[s].user ELSE u
            c == [IdleAuthCall EXCEPT !.phase = "started", !.kind = kind, !.user = bearer,
                                      !.session = s, !.device = d, !.value = value]
            barred == kind \in {"login", "refresh"} /\ ~MayLogin(person[bearer])
            cut == kind = "refresh" /\ session[s].expired
            next == [c EXCEPT !.barred = barred, !.cut = cut]
<1>2. /\ authCall[r].phase = "idle" /\ UNCHANGED <<person, session, device>>
      /\ authCall' = [authCall EXCEPT ![r] = next]
      /\ silent' = IF Asks(c, d) THEN silent \ {d} ELSE silent
    BY <1>1 DEF StartAuthCall
<1>3. kind \in AllAuthKinds /\ s \in SessionIds \cup {None} /\ barred \in BOOLEAN
    BY SessionAssumption DEF Sessions, MayLogin
<1>4. /\ kind \in {"login", "setActive", "setBlocked", "deleteUser", "addSession",
                   "addDevice", "moveDevice"} => u # None
      /\ kind \in SessionKinds <=> s # None
      /\ kind \in DeviceKinds => d # None
    BY <1>1, <1>3 DEF Needs, AllAuthKinds, SessionKinds, DeviceKinds
<1>5. /\ bearer \in People \cup {None}
      /\ kind \in UserKinds => bearer \in People
      /\ kind = "refresh" => session[s] # None /\ session[s].user = bearer
      /\ cut \in BOOLEAN /\ (cut => kind = "refresh" /\ session[s].expired)
    BY <1>4, SessionNoRow DEF UserKinds, SessionKinds, Sessions, SessionInv, SessionTypeOK, SessionRow
<1>. HIDE DEF bearer, barred, cut
<1>6. /\ next.phase = "started" /\ next.kind = kind /\ next.user = bearer /\ next.session = s
      /\ next.device = d /\ next.barred = barred /\ next.cut = cut /\ next \in AuthCall
      /\ c.device = d /\ c.kind = kind
    BY <1>3, <1>5 DEF IdleAuthCall, AuthCall, AuthPhases
<1>. HIDE DEF next, c
<1>7. SessionCallSound(next)
    BY <1>3, <1>4, <1>5, <1>6, SessionNoRow DEF SessionCallSound, SessionLivePhases, barred
<1>8. authCall'[r] = next /\ \A q \in AuthCalls \ {r} : authCall'[q] = authCall[q]
    BY <1>2 DEF SessionInv, SessionTypeOK
<1>9. SessionTypeOK'
    BY <1>2, <1>6 DEF SessionInv, SessionTypeOK
<1>10. \A q \in AuthCalls \ {r} : Unmoved(authCall[q], authCall'[q])
    BY <1>8 DEF Unmoved
<1>11. ASSUME NEW q \in AuthCalls PROVE Stands(authCall[q])'
    <2>1. Stands(next)
        BY <1>5, <1>6 DEF Stands, barred
    <2>2. Stands(authCall'[q])
        BY <1>8, <2>1, SessionCallFacts
    <2>3. QED
        BY <1>2, <2>2 DEF Stands
<1>12. ASSUME NEW e \in silent'
       PROVE  /\ device'[e] = None
              /\ authCall'[r].phase \in AskingPhases => ~Asks(authCall'[r], e)
              /\ \A q \in AuthCalls \ {r} : authCall[q].phase \in AskingPhases => ~Asks(authCall[q], e)
    <2>1. e \in silent /\ (Asks(c, d) => e # d)
        BY <1>2
    <2>2. ~Asks(next, e)
        BY <1>6, <2>1 DEF Asks
    <2>3. QED
        BY <1>2, <1>8, <2>1, <2>2 DEF SessionInv, SilentSound
<1>13. next.session = None \/ next.session \in Sessions
    BY <1>6
<1>14. QED
    BY <1>2, <1>6, <1>7, <1>8, <1>9, <1>10, <1>11, <1>12, <1>13, SessionKeeps DEF FreshPhases

(***************************************************************************)
(* The steps that write devices.                                           *)
(***************************************************************************)
LEMMA DevicesChange ==
    ASSUME SessionInv, NEW r \in AuthCalls, NEW phase \in {"issued", "done"},
           authCall[r].phase \in SessionLivePhases, phase = "issued" => ~authCall[r].barred /\ ~authCall[r].cut,
           Finish(r, phase), UNCHANGED <<person, session>>,
           device' \in [Devices -> People \cup {None}], silent' \subseteq Devices,
           \A d \in silent' :
               /\ device'[d] = None
               /\ \A q \in AuthCalls \ {r} : authCall[q].phase \in AskingPhases => ~Asks(authCall[q], d)
    PROVE  SessionInv'
<1>. DEFINE over == Over(authCall[r], phase)
<1>1. /\ over \in AuthCall /\ SessionCallSound(over) /\ Stands(over)
      /\ over.phase = phase /\ over.session = None
    <2>1. authCall[r] \in AuthCall /\ SessionCallSound(authCall[r])
        BY SessionCallFacts
    <2>2. CASE phase = "issued"
        <3>1. ~authCall[r].barred /\ ~authCall[r].cut
            BY <2>2
        <3>2. QED
            BY <2>1, <2>2, <3>1, OverSound
    <2>3. CASE phase = "done"
        BY <2>1, <2>3, OverSound
    <2>4. QED
        BY <2>2, <2>3
<1>. HIDE DEF over
<1>2. authCall'[r] = over /\ \A q \in AuthCalls \ {r} : authCall'[q] = authCall[q]
    BY DEF SessionInv, SessionTypeOK, Finish, over
<1>3. SessionTypeOK'
    BY <1>1 DEF SessionInv, SessionTypeOK, Finish, over
<1>4. ASSUME NEW q \in AuthCalls PROVE Stands(authCall[q])'
    <2>1. Stands(authCall'[q])
        BY <1>1, <1>2, SessionCallFacts
    <2>2. QED
        BY <2>1 DEF Stands
<1>5. \A q \in AuthCalls \ {r} : Unmoved(authCall[q], authCall'[q])
    BY <1>2 DEF Unmoved
<1>6. phase \notin FreshPhases /\ phase \notin AskingPhases
    BY DEF FreshPhases, AskingPhases
<1>7. QED
    BY <1>1, <1>2, <1>3, <1>4, <1>5, <1>6, SessionKeeps

\* A device that somebody has asked for since it was logged out is not silent.
LEMMA DeviceStepsKeep ==
    ASSUME SessionInv, NEW r \in AuthCalls,
           AnswerLogin(r) \/ ForgetDevice(r) \/ GiveDevice(r) \/ RemoveDevice(r) \/ SendToDevices(r)
    PROVE  SessionInv'
<1>. DEFINE c == authCall[r]
<1>1. c \in AuthCall /\ SessionCallSound(c) /\ Stands(c) /\ device \in [Devices -> People \cup {None}]
      /\ silent \subseteq Devices
    BY SessionCallFacts DEF SessionInv, SessionTypeOK
<1>2. \A d \in silent :
          /\ device[d] = None
          /\ \A q \in AuthCalls : authCall[q].phase \in AskingPhases => ~Asks(authCall[q], d)
    BY DEF SessionInv, SilentSound
<1>3. CASE AnswerLogin(r)
    <2>1. /\ c.kind = "login" /\ c.phase = "opened" /\ Finish(r, "issued")
          /\ device' = IF c.device = None THEN device ELSE [device EXCEPT ![c.device] = c.user]
          /\ UNCHANGED <<person, session, silent>>
        BY <1>3 DEF AnswerLogin, AuthStep
    <2>2. c.user \in People /\ ~c.barred /\ ~c.cut
        BY <1>1, <2>1 DEF SessionCallSound, SessionLivePhases, UserKinds
    <2>3. \A d \in silent : d # c.device
        BY <1>2, <2>1 DEF AskingPhases, Asks
    <2>4. device' \in [Devices -> People \cup {None}] /\ \A d \in silent : device'[d] = None
        BY <1>1, <1>2, <2>1, <2>2, <2>3
    <2>5. QED
        BY <1>1, <1>2, <2>1, <2>2, <2>4, DevicesChange DEF SessionLivePhases
<1>4. CASE ForgetDevice(r)
    <2>. DEFINE d == c.device
                asked == \E q \in AuthCalls : authCall[q].phase \in {"started", "loaded", "opened"}
                                              /\ Asks(authCall[q], d)
    <2>1. /\ c.kind = "logout" /\ c.phase = "loaded" /\ Finish(r, "done")
          /\ device' = [e \in Devices |-> IF e = d THEN None ELSE device[e]]
          /\ silent' = IF d = None \/ asked THEN silent ELSE silent \cup {d}
          /\ UNCHANGED <<person, session>>
        BY <1>4 DEF ForgetDevice, AuthStep
    <2>2. silent' \subseteq Devices
        BY <1>1, <2>1 DEF AuthCall
    <2>3. ASSUME NEW e \in silent'
          PROVE  /\ device'[e] = None
                 /\ \A q \in AuthCalls : authCall[q].phase \in AskingPhases => ~Asks(authCall[q], e)
        <3>1. CASE e \in silent
            BY <1>1, <1>2, <2>1, <3>1
        <3>2. CASE e \notin silent
            BY <2>1, <2>2, <3>2 DEF AskingPhases
        <3>3. QED
            BY <3>1, <3>2
    <2>4. device' \in [Devices -> People \cup {None}]
        BY <1>1, <2>1
    <2>. HIDE DEF asked
    <2>5. QED
        BY <2>1, <2>2, <2>3, <2>4, DevicesChange DEF SessionLivePhases
<1>5. CASE GiveDevice(r)
    <2>1. /\ c.kind \in {"addDevice", "moveDevice"} /\ c.phase = "loaded" /\ Finish(r, "done")
          /\ device' = [device EXCEPT ![c.device] = c.user]
          /\ UNCHANGED <<person, session, silent>>
        BY <1>5 DEF GiveDevice
    <2>2. c.user \in People
        BY <1>1, <2>1 DEF SessionCallSound, SessionLivePhases, UserKinds
    <2>3. \A d \in silent : d # c.device
        BY <1>2, <2>1 DEF AskingPhases, Asks
    <2>4. device' \in [Devices -> People \cup {None}] /\ \A d \in silent : device'[d] = None
        BY <1>1, <1>2, <2>1, <2>2, <2>3
    <2>5. QED
        BY <1>1, <1>2, <2>1, <2>4, DevicesChange DEF SessionLivePhases
<1>6. CASE RemoveDevice(r) \/ SendToDevices(r)
    <2>1. /\ c.phase = "loaded" /\ Finish(r, "done") /\ UNCHANGED <<person, session, silent>>
          /\ device' \in [Devices -> People \cup {None}] /\ \A d \in silent : device'[d] = None
        BY <1>1, <1>2, <1>6 DEF RemoveDevice, SendToDevices, AuthStep
    <2>2. QED
        BY <1>1, <1>2, <2>1, DevicesChange DEF SessionLivePhases
<1>7. QED
    BY <1>3, <1>4, <1>5, <1>6

(***************************************************************************)
(* The steps that write sessions and users.                                *)
(***************************************************************************)
\* The name of a new session was known to nobody.
LEMMA SessionAppears ==
    ASSUME SessionInv, NEW r \in AuthCalls, NEW row \in SessionRow, NEW c \in AuthCall, SessionCallSound(c),
           authCall[r].phase = "loaded", c.phase \in {"opened", "done"},
           c.session \in {None, r},
           c.phase = "opened" => c.kind = authCall[r].kind /\ c.device = authCall[r].device,
           session' = [session EXCEPT ![r] = row], authCall' = [authCall EXCEPT ![r] = c],
           UNCHANGED <<person, device, silent>>
    PROVE  SessionInv'
<1>1. authCall'[r] = c /\ \A q \in AuthCalls \ {r} : authCall'[q] = authCall[q]
    BY DEF SessionInv, SessionTypeOK
<1>2. SessionTypeOK' /\ r \in SessionIds /\ session \in [SessionIds -> SessionRow \cup {None}]
    BY DEF SessionInv, SessionTypeOK, SessionIds
<1>3. \A q \in AuthCalls : authCall[q].session # r
    BY DEF SessionInv, SessionNamesFresh, FreshPhases
<1>4. ASSUME NEW q \in AuthCalls PROVE Stands(authCall[q])'
    <2>1. CASE q = r
        BY <1>1, <2>1 DEF Stands, RefreshPhases
    <2>2. CASE q # r
        <3>1. SessionCallSound(authCall[q]) /\ Stands(authCall[q])
            BY SessionCallFacts
        <3>2. authCall[q].session \in SessionIds =>
                  session'[authCall[q].session] = session[authCall[q].session]
            BY <1>2, <1>3
        <3>3. authCall[q].kind = "refresh" /\ authCall[q].phase \in RefreshPhases =>
                  authCall[q].session \in SessionIds
            BY <3>1 DEF SessionCallSound, SessionLivePhases, RefreshPhases, SessionKinds
        <3>4. authCall[q].phase \in {"started", "loaded"} => authCall[q].phase \in RefreshPhases
            BY DEF RefreshPhases
        <3>5. authCall'[q] = authCall[q] /\ person' = person
            BY <1>1, <2>2
        <3>6. QED
            BY <3>1, <3>2, <3>3, <3>4, <3>5 DEF Stands
    <2>3. QED
        BY <2>1, <2>2
<1>5. \A q \in AuthCalls \ {r} : Unmoved(authCall[q], authCall'[q])
    BY <1>1 DEF Unmoved
<1>6. c.phase \notin FreshPhases
    BY DEF FreshPhases
<1>7. ASSUME NEW d \in silent'
      PROVE  /\ device'[d] = None
             /\ authCall'[r].phase \in AskingPhases => ~Asks(authCall'[r], d)
             /\ \A q \in AuthCalls \ {r} : authCall[q].phase \in AskingPhases => ~Asks(authCall[q], d)
    BY <1>1 DEF SessionInv, SilentSound, Asks, AskingPhases
<1>8. \A s \in SessionIds : s # r /\ session'[s] # None => session[s] # None
    BY <1>2
<1>9. QED
    BY <1>1, <1>2, <1>4, <1>5, <1>6, <1>7, <1>8, SessionKeeps

LEMMA NewSessionKeeps ==
    ASSUME SessionInv, NEW r \in AuthCalls, OpenSession(r) \/ AddSession(r)
    PROVE  SessionInv'
<1>. DEFINE c == authCall[r]
<1>1. c \in AuthCall /\ SessionCallSound(c) /\ r \in SessionIds
    BY SessionCallFacts DEF SessionIds
<1>2. CASE OpenSession(r)
    <2>. DEFINE next == [c EXCEPT !.phase = "opened", !.session = r]
                row == [user |-> c.user, expired |-> FALSE]
    <2>1. /\ c.kind = "login" /\ c.phase = "loaded" /\ session' = [session EXCEPT ![r] = row]
          /\ UNCHANGED <<person, device, silent>>
          /\ authCall' = [authCall EXCEPT ![r].phase = "opened", ![r].session = r]
        BY <1>2 DEF OpenSession, AuthStep
    <2>2. authCall' = [authCall EXCEPT ![r] = next]
        BY <1>1, <2>1 DEF SessionInv, SessionTypeOK, AuthCall
    <2>3. row \in SessionRow
        BY <1>1, <2>1 DEF SessionCallSound, SessionLivePhases, UserKinds, SessionRow
    <2>4. /\ next.phase = "opened" /\ next.kind = c.kind /\ next.user = c.user
          /\ next.session = r /\ next.device = c.device /\ next.seen = c.seen
          /\ next.barred = c.barred /\ next.cut = c.cut /\ next \in AuthCall
        BY <1>1 DEF AuthCall, AuthPhases
    <2>. HIDE DEF next, row
    <2>5. SessionCallSound(next)
        BY <1>1, <2>1, <2>4 DEF SessionCallSound, SessionLivePhases, SessionKinds, DeviceKinds
    <2>6. QED
        BY <2>1, <2>2, <2>3, <2>4, <2>5, SessionAppears
<1>3. CASE AddSession(r)
    <2>1. PICK ended \in BOOLEAN :
              session' = [session EXCEPT ![r] = [user |-> c.user, expired |-> ended]]
        BY <1>3 DEF AddSession
    <2>. DEFINE row == [user |-> c.user, expired |-> ended]
                next == Over(c, "done")
    <2>2. /\ c.kind = "addSession" /\ c.phase = "loaded" /\ UNCHANGED <<person, device, silent>>
          /\ authCall' = [authCall EXCEPT ![r] = next]
        BY <1>3 DEF AddSession, AuthStep, Finish, SessionInv, SessionTypeOK
    <2>3. row \in SessionRow
        BY <1>1, <2>2 DEF SessionCallSound, SessionLivePhases, UserKinds, SessionRow
    <2>4. next \in AuthCall /\ SessionCallSound(next) /\ next.phase = "done" /\ next.session = None
        BY <1>1, OverSound
    <2>. HIDE DEF next, row
    <2>5. session' = [session EXCEPT ![r] = row]
        BY <2>1 DEF row
    <2>6. QED
        BY <2>2, <2>3, <2>4, <2>5, SessionAppears
<1>4. QED
    BY <1>2, <1>3

\* Who was about to refresh a session that ends is cut off.
LEMMA SessionsEnd ==
    ASSUME SessionInv, NEW r \in AuthCalls, NEW ended, NEW c \in AuthCall, SessionCallSound(c),
           authCall[r].phase \in SessionLivePhases, c.session \in {None, authCall[r].session},
           c.phase \in {"loaded", "done", "refused"}, c.phase = "loaded" => c.kind = "logout",
           c.phase \in FreshPhases => authCall[r].phase \in FreshPhases,
           session' = [s \in SessionIds |-> IF s \in ended THEN None ELSE session[s]],
           authCall' = Cut([authCall EXCEPT ![r] = c], ended), silent' = silent,
           device' \in [Devices -> People \cup {None}],
           \A d \in Devices : device'[d] \in {None, device[d]},
           person' \in [People -> Person \cup {None}],
           \A u \in People : person'[u] \in {None, person[u]}
    PROVE  SessionInv'
<1>. DEFINE calls == [authCall EXCEPT ![r] = c]
            cuts(q) == /\ calls[q].kind = "refresh" /\ calls[q].session \in ended
                       /\ calls[q].phase \in {"started", "loaded", "expired"}
<1>1. calls \in [AuthCalls -> AuthCall] /\ calls[r] = c
      /\ \A q \in AuthCalls \ {r} : calls[q] = authCall[q]
    BY DEF SessionInv, SessionTypeOK
<1>. HIDE DEF calls
<1>2. authCall' = [q \in AuthCalls |-> [calls[q] EXCEPT !.cut = @ \/ cuts(q)]]
    BY DEF Cut, calls
<1>3. ASSUME NEW q \in AuthCalls
      PROVE  /\ authCall'[q] \in AuthCall /\ authCall'[q].phase = calls[q].phase
             /\ authCall'[q].kind = calls[q].kind /\ authCall'[q].user = calls[q].user
             /\ authCall'[q].session = calls[q].session /\ authCall'[q].device = calls[q].device
             /\ authCall'[q].seen = calls[q].seen /\ authCall'[q].barred = calls[q].barred
             /\ authCall'[q].found = calls[q].found /\ authCall'[q].quiet = calls[q].quiet
             /\ authCall'[q].cut => calls[q].cut \/ cuts(q)
    <2>. DEFINE cut == calls[q].cut \/ cuts(q)
    <2>1. calls[q] \in AuthCall /\ cut \in BOOLEAN
        BY <1>1
    <2>2. authCall'[q] = [calls[q] EXCEPT !.cut = cut]
        BY <1>2
    <2>3. cut => calls[q].cut \/ cuts(q)
        OBVIOUS
    <2>. HIDE DEF cut
    <2>4. authCall'[q].cut = cut
        BY <2>1, <2>2 DEF AuthCall
    <2>5. authCall'[q].cut => calls[q].cut \/ cuts(q)
        BY <2>3, <2>4
    <2>6. QED
        BY <2>1, <2>2, <2>5 DEF AuthCall
<1>4. \A q \in AuthCalls : cuts(q) => /\ calls[q].kind = "refresh" /\ calls[q].session \in ended
                                      /\ calls[q].phase \in RefreshPhases
    BY DEF RefreshPhases
<1>5. ~cuts(r)
    BY <1>1
<1>. HIDE DEF cuts
<1>6. \A q \in AuthCalls \ {r} : Unmoved(authCall[q], authCall'[q])
    <2>. SUFFICES ASSUME NEW q \in AuthCalls \ {r} PROVE Unmoved(authCall[q], authCall'[q])
        OBVIOUS
    <2>. DEFINE b == calls[q]
    <2>1. b = authCall[q] /\ q \in AuthCalls
        BY <1>1
    <2>2. authCall'[q].cut =>
              authCall[q].cut \/ (authCall[q].kind = "refresh" /\ authCall[q].phase \in RefreshPhases)
        BY <1>3, <1>4, <2>1
    <2>3. /\ authCall'[q].phase = authCall[q].phase /\ authCall'[q].kind = authCall[q].kind
          /\ authCall'[q].user = authCall[q].user /\ authCall'[q].session = authCall[q].session
          /\ authCall'[q].device = authCall[q].device /\ authCall'[q].seen = authCall[q].seen
          /\ authCall'[q].found = authCall[q].found /\ authCall'[q].quiet = authCall[q].quiet
        <3>1. /\ authCall'[q].phase = b.phase /\ authCall'[q].kind = b.kind
              /\ authCall'[q].user = b.user /\ authCall'[q].session = b.session
              /\ authCall'[q].device = b.device /\ authCall'[q].seen = b.seen
              /\ authCall'[q].found = b.found /\ authCall'[q].quiet = b.quiet
            BY <1>3, <2>1
        <3>. HIDE DEF b
        <3>2. QED
            BY <3>1, <2>1
    <2>4. authCall'[q].barred => authCall[q].barred
        BY <1>3, <2>1
    <2>5. QED
        BY <2>2, <2>3, <2>4 DEF Unmoved
<1>7. Unmoved(c, authCall'[r])
    <2>1. /\ authCall'[r].phase = c.phase /\ authCall'[r].kind = c.kind
          /\ authCall'[r].user = c.user /\ authCall'[r].session = c.session
          /\ authCall'[r].device = c.device /\ authCall'[r].seen = c.seen
          /\ authCall'[r].found = c.found /\ authCall'[r].quiet = c.quiet
        BY <1>1, <1>3
    <2>2. (authCall'[r].barred => c.barred) /\ (authCall'[r].cut => c.cut)
        BY <1>1, <1>3, <1>5
    <2>3. QED
        BY <2>1, <2>2 DEF Unmoved
<1>8. SessionCallSound(authCall'[r])
    BY <1>7, UnmovedSound
<1>9. SessionTypeOK'
    <2>1. authCall' \in [AuthCalls -> AuthCall]
        BY <1>2, <1>3
    <2>2. session' \in [SessionIds -> SessionRow \cup {None}]
        BY DEF SessionInv, SessionTypeOK
    <2>3. QED
        BY <2>1, <2>2 DEF SessionInv, SessionTypeOK
<1>10. ASSUME NEW q \in AuthCalls PROVE Stands(authCall[q])'
    <2>1. CASE q = r
        <3>1. /\ authCall'[r].phase \notin {"started", "expired"}
              /\ authCall'[r].phase = "loaded" => authCall'[r].kind # "refresh"
            BY <1>1, <1>3
        <3>2. QED
            BY <2>1, <3>1 DEF Stands, RefreshPhases
    <2>2. CASE q # r
        <3>. DEFINE b == authCall[q]
        <3>1. SessionCallSound(b) /\ Stands(b) /\ b \in AuthCall /\ calls[q] = b
            BY <1>1, <2>2, SessionCallFacts
        <3>2. ASSUME b.phase = "started", b.barred
              PROVE  /\ ~MayLogin(person'[b.user])
                     /\ b.kind = "refresh" /\ session'[b.session] # None => session'[b.session].user = b.user
            <4>1. b.user \in People /\ (b.kind = "refresh" => b.session \in SessionIds)
                BY <3>1, <3>2 DEF SessionCallSound, SessionLivePhases, UserKinds, SessionKinds
            <4>2. ~MayLogin(person[b.user]) /\ ~MayLogin(None)
                BY <3>1, <3>2 DEF Stands, MayLogin
            <4>3. person'[b.user] \in {None, person[b.user]}
                BY <4>1
            <4>4. ~MayLogin(person'[b.user])
                BY <4>2, <4>3
            <4>5. QED
                BY <3>1, <3>2, <4>1, <4>4 DEF Stands
        <3>3. ASSUME b.kind = "refresh", b.phase \in {"started", "loaded"}, b.cut \/ cuts(q)
              PROVE  \/ session'[b.session] = None
                     \/ b.phase = "started" /\ session'[b.session].expired
            <4>1. b.session \in SessionIds
                BY <3>1, <3>3 DEF SessionCallSound, SessionLivePhases, SessionKinds
            <4>2. \/ b.session \in ended \/ session[b.session] = None
                  \/ b.phase = "started" /\ session[b.session].expired
                BY <1>4, <3>1, <3>3 DEF Stands
            <4>3. QED
                BY <4>1, <4>2
        <3>. HIDE DEF b
        <3>4. /\ authCall'[q].phase = b.phase /\ authCall'[q].kind = b.kind
              /\ authCall'[q].user = b.user /\ authCall'[q].session = b.session
              /\ authCall'[q].barred = b.barred
              /\ authCall'[q].cut => b.cut \/ cuts(q)
            BY <1>3, <3>1
        <3>5. QED
            BY <3>2, <3>3, <3>4 DEF Stands
    <2>3. QED
        BY <2>1, <2>2
<1>11. ASSUME NEW d \in silent'
       PROVE  /\ device'[d] = None
              /\ authCall'[r].phase \in AskingPhases => ~Asks(authCall'[r], d)
              /\ \A q \in AuthCalls \ {r} : authCall[q].phase \in AskingPhases => ~Asks(authCall[q], d)
    <2>1. /\ d \in silent /\ device[d] = None
          /\ \A q \in AuthCalls : authCall[q].phase \in AskingPhases => ~Asks(authCall[q], d)
        BY DEF SessionInv, SilentSound
    <2>2. device'[d] = None
        BY <2>1 DEF SessionInv, SessionTypeOK
    <2>3. authCall'[r].phase = c.phase /\ authCall'[r].kind = c.kind
        BY <1>1, <1>3
    <2>4. authCall'[r].phase \in AskingPhases => ~Asks(authCall'[r], d)
        BY <2>3 DEF Asks, AskingPhases
    <2>5. QED
        BY <2>1, <2>2, <2>4
<1>12. /\ \A s \in SessionIds : session'[s] # None => session[s] # None
       /\ authCall'[r].phase = c.phase /\ authCall'[r].session = c.session /\ r \in SessionIds
    BY <1>1, <1>3 DEF SessionIds
<1>13. c.phase \in FreshPhases => session'[r] = session[r]
    <2>1. authCall[r].phase \in FreshPhases => session[r] = None
        BY DEF SessionInv, SessionNamesFresh
    <2>2. QED
        BY <1>12, <2>1
<1>14. QED
    BY <1>6, <1>8, <1>9, <1>10, <1>11, <1>12, <1>13, SessionKeeps

LEMMA SessionEndsKeep ==
    ASSUME SessionInv, NEW r \in AuthCalls,
           DropExpired(r) \/ EndSession(r) \/ RemoveSession(r) \/ DeletePerson(r)
    PROVE  SessionInv'
<1>. DEFINE c == authCall[r]
            Ends(ended) == [s \in SessionIds |-> IF s \in ended THEN None ELSE session[s]]
<1>1. /\ c \in AuthCall /\ SessionCallSound(c) /\ session \in [SessionIds -> SessionRow \cup {None}]
      /\ device \in [Devices -> People \cup {None}] /\ person \in [People -> Person \cup {None}]
    BY SessionCallFacts DEF SessionInv, SessionTypeOK
<1>2. \A s : [session EXCEPT ![s] = None] = Ends({s})
    BY <1>1
<1>3. \A phase : [authCall EXCEPT ![r] = Over(@, phase)] = [authCall EXCEPT ![r] = Over(c, phase)]
    BY DEF SessionInv, SessionTypeOK
<1>4. \A phase \in {"done", "refused"} :
          /\ Over(c, phase) \in AuthCall /\ SessionCallSound(Over(c, phase))
          /\ Over(c, phase).phase = phase /\ Over(c, phase).session = None
    BY <1>1, OverSound
<1>5. CASE DropExpired(r)
    <2>1. /\ c.phase = "expired" /\ session' = Ends({c.session})
          /\ authCall' = Cut([authCall EXCEPT ![r] = Over(c, "refused")], {c.session})
          /\ UNCHANGED <<person, device, silent>>
        BY <1>2, <1>3, <1>5 DEF DropExpired, AuthStep
    <2>2. QED
        BY <1>1, <1>4, <2>1, SessionsEnd DEF SessionLivePhases, FreshPhases
<1>6. CASE EndSession(r)
    <2>. DEFINE next == [c EXCEPT !.phase = "loaded"]
    <2>1. /\ c.kind = "logout" /\ c.phase = "started" /\ session' = Ends({c.session})
          /\ authCall' = Cut([authCall EXCEPT ![r] = next], {c.session})
          /\ UNCHANGED <<person, device, silent>>
        BY <1>1, <1>2, <1>6 DEF EndSession, AuthStep, SessionInv, SessionTypeOK
    <2>2. /\ next.phase = "loaded" /\ next.kind = c.kind /\ next.user = c.user
          /\ next.session = c.session /\ next.device = c.device /\ next.seen = c.seen
          /\ next.barred = c.barred /\ next.cut = c.cut /\ next \in AuthCall
        BY <1>1 DEF AuthCall, AuthPhases
    <2>. HIDE DEF next
    <2>3. SessionCallSound(next)
        BY <1>1, <2>1, <2>2 DEF SessionCallSound, SessionLivePhases, Switches
    <2>4. QED
        BY <1>1, <2>1, <2>2, <2>3, SessionsEnd DEF SessionLivePhases, FreshPhases
<1>7. CASE RemoveSession(r)
    <2>1. /\ c.phase = "loaded" /\ session' = Ends({c.session})
          /\ authCall' = Cut([authCall EXCEPT ![r] = Over(c, "done")], {c.session})
          /\ UNCHANGED <<person, device, silent>>
        BY <1>2, <1>3, <1>7 DEF RemoveSession, AuthStep
    <2>2. QED
        BY <1>1, <1>4, <2>1, SessionsEnd DEF SessionLivePhases, FreshPhases
<1>8. CASE DeletePerson(r)
    <2>. DEFINE u == c.user
                ended == {s \in Sessions : session[s].user = u}
    <2>1. /\ c.phase = "loaded" /\ session' = Ends(ended)
          /\ authCall' = Cut([authCall EXCEPT ![r] = Over(c, "done")], ended)
          /\ person' = [person EXCEPT ![u] = None]
          /\ device' = [d \in Devices |-> IF device[d] = u THEN None ELSE device[d]]
          /\ UNCHANGED silent
        BY <1>3, <1>8 DEF DeletePerson, AuthStep
    <2>2. /\ person' \in [People -> Person \cup {None}]
          /\ \A v \in People : person'[v] \in {None, person[v]}
          /\ device' \in [Devices -> People \cup {None}]
          /\ \A d \in Devices : device'[d] \in {None, device[d]}
        BY <1>1, <2>1
    <2>. HIDE DEF ended
    <2>3. QED
        BY <1>1, <1>4, <2>1, <2>2, SessionsEnd DEF SessionLivePhases, FreshPhases
<1>9. QED
    BY <1>5, <1>6, <1>7, <1>8

\* A session is given somebody else, or another end: whoever was barred has it no more.
LEMMA EditSessionKeeps ==
    ASSUME SessionInv, NEW r \in AuthCalls, EditSession(r)
    PROVE  SessionInv'
<1>. DEFINE c == authCall[r]
            over == Over(c, "done")
            s == c.session
<1>1. /\ c \in AuthCall /\ SessionCallSound(c) /\ session \in [SessionIds -> SessionRow \cup {None}]
      /\ c.kind = "editSession" /\ c.phase = "loaded" /\ s \in SessionIds /\ session[s] # None
    BY SessionCallFacts DEF EditSession, AuthStep, Sessions, SessionInv, SessionTypeOK
<1>2. PICK ended \in BOOLEAN :
          /\ session' = [session EXCEPT ![s].expired = ended,
                                        ![s].user = IF c.user = None THEN @ ELSE c.user]
          /\ authCall' = [q \in AuthCalls |->
                 IF q = r THEN over
                 ELSE [authCall[q] EXCEPT !.barred = @ /\ authCall[q].session # s,
                          !.cut = IF Seeks(authCall[q], s) THEN ended ELSE @]]
    BY DEF EditSession
<1>3. UNCHANGED <<person, device, silent>>
    BY DEF EditSession
<1>4. /\ session' \in [SessionIds -> SessionRow \cup {None}]
      /\ \A t \in SessionIds \ {s} : session'[t] = session[t]
      /\ session'[s].expired = ended
    <2>1. session[s] \in SessionRow /\ c.user \in People \cup {None}
        BY <1>1 DEF AuthCall
    <2>2. \A user \in People : [[session[s] EXCEPT !.expired = ended] EXCEPT !.user = user] \in SessionRow
        BY <2>1 DEF SessionRow
    <2>3. QED
        BY <1>1, <1>2, <2>1, <2>2 DEF SessionRow
<1>5. over \in AuthCall /\ SessionCallSound(over) /\ Stands(over) /\ over.phase = "done" /\ over.session = None
    BY <1>1, OverSound
<1>. HIDE DEF over
<1>6. ASSUME NEW q \in AuthCalls \ {r}
      PROVE  /\ authCall'[q] \in AuthCall /\ Unmoved(authCall[q], authCall'[q])
             /\ authCall'[q].barred => authCall[q].session # s
             /\ authCall'[q].cut => IF Seeks(authCall[q], s) THEN ended ELSE authCall[q].cut
    <2>. DEFINE barred == authCall[q].barred /\ authCall[q].session # s
                cut == IF Seeks(authCall[q], s) THEN ended ELSE authCall[q].cut
    <2>1. authCall[q] \in AuthCall /\ barred \in BOOLEAN /\ cut \in BOOLEAN
        BY DEF SessionInv, SessionTypeOK, AuthCall
    <2>2. authCall'[q] = [authCall[q] EXCEPT !.barred = barred, !.cut = cut]
        BY <1>2
    <2>3. /\ barred => authCall[q].barred /\ authCall[q].session # s
          /\ cut => IF Seeks(authCall[q], s) THEN ended ELSE authCall[q].cut
          /\ cut => authCall[q].cut \/ (authCall[q].kind = "refresh" /\ authCall[q].phase \in RefreshPhases)
        BY DEF Seeks, RefreshPhases
    <2>. HIDE DEF barred, cut
    <2>4. authCall'[q] \in AuthCall
        BY <2>1, <2>2 DEF AuthCall
    <2>5. authCall'[q].barred = barred /\ authCall'[q].cut = cut
        BY <2>1, <2>2 DEF AuthCall
    <2>6. /\ authCall'[q].phase = authCall[q].phase /\ authCall'[q].kind = authCall[q].kind
          /\ authCall'[q].user = authCall[q].user /\ authCall'[q].session = authCall[q].session
          /\ authCall'[q].device = authCall[q].device /\ authCall'[q].seen = authCall[q].seen
          /\ authCall'[q].found = authCall[q].found /\ authCall'[q].quiet = authCall[q].quiet
        BY <2>1, <2>2 DEF AuthCall
    <2>7. Unmoved(authCall[q], authCall'[q])
        BY <2>3, <2>5, <2>6 DEF Unmoved
    <2>8. QED
        BY <2>3, <2>4, <2>5, <2>7
<1>7. SessionTypeOK'
    <2>1. authCall' \in [AuthCalls -> AuthCall]
        BY <1>2, <1>5, <1>6
    <2>2. QED
        BY <1>3, <1>4, <2>1 DEF SessionInv, SessionTypeOK
<1>8. authCall'[r] = over
    BY <1>2
<1>9. ASSUME NEW q \in AuthCalls PROVE Stands(authCall[q])'
    <2>1. CASE q = r
        BY <1>5, <1>8, <2>1 DEF Stands, RefreshPhases
    <2>2. CASE q # r
        <3>. DEFINE b == authCall[q]
                    d == authCall'[q]
        <3>1. /\ SessionCallSound(b) /\ Stands(b) /\ Unmoved(b, d)
              /\ d.cut => IF Seeks(b, s) THEN ended ELSE b.cut
              /\ d.barred => b.barred /\ b.session # s
            BY <1>6, <2>2, SessionCallFacts DEF Unmoved
        <3>2. b.kind = "refresh" /\ b.phase \in RefreshPhases =>
                  /\ b.session \in SessionIds
                  /\ b.session # s => session'[b.session] = session[b.session]
            BY <1>4, <3>1 DEF SessionCallSound, SessionLivePhases, RefreshPhases, SessionKinds
        <3>3. b.phase \in {"started", "loaded"} => b.phase \in RefreshPhases
            BY DEF RefreshPhases
        <3>4. b.kind = "refresh" /\ b.phase = "loaded" /\ d.cut => session'[b.session] = None
            BY <1>1, <3>1, <3>2, <3>3 DEF Stands, Seeks
        <3>5. b.kind = "refresh" /\ b.phase = "started" /\ d.cut /\ session'[b.session] # None =>
                  session'[b.session].expired
            <4>1. CASE b.session = s
                BY <1>4, <3>1, <4>1 DEF Seeks
            <4>2. CASE b.session # s
                BY <3>1, <3>2, <3>3, <4>2 DEF Stands, Seeks
            <4>3. QED
                BY <4>1, <4>2
        <3>6. b.phase = "started" /\ d.barred =>
                  /\ ~MayLogin(person[b.user])
                  /\ b.kind = "refresh" /\ session'[b.session] # None =>
                         session'[b.session].user = b.user
            BY <3>1, <3>2, <3>3 DEF Stands
        <3>7. /\ d.phase = b.phase /\ d.kind = b.kind /\ d.user = b.user
              /\ d.session = b.session
            BY <3>1 DEF Unmoved
        <3>. HIDE DEF b, d
        <3>8. QED
            BY <1>3, <3>4, <3>5, <3>6, <3>7 DEF Stands, d
    <2>3. QED
        BY <2>1, <2>2
<1>10. ASSUME NEW d \in silent'
       PROVE  /\ device'[d] = None
              /\ \A q \in AuthCalls \ {r} : authCall[q].phase \in AskingPhases => ~Asks(authCall[q], d)
    BY <1>3 DEF SessionInv, SilentSound
<1>11. over.phase \notin FreshPhases \cup AskingPhases
    BY <1>5 DEF FreshPhases, AskingPhases
<1>12. \A t \in SessionIds : session'[t] # None => session[t] # None
    BY <1>1, <1>4
<1>13. QED
    BY <1>5, <1>6, <1>7, <1>8, <1>9, <1>10, <1>11, <1>12, SessionKeeps

\* Whoever is admitted again has not been barred ever since.
LEMMA SwitchKeeps ==
    ASSUME SessionInv, NEW r \in AuthCalls, Switch(r)
    PROVE  SessionInv'
<1>. DEFINE c == authCall[r]
            over == Over(c, "done")
            row == person[c.user]
            calls == [authCall EXCEPT ![r] = over]
<1>1. /\ c \in AuthCall /\ SessionCallSound(c) /\ person \in [People -> Person \cup {None}]
      /\ c.phase = "loaded" /\ c.kind \in Switches /\ row # None
    BY SessionCallFacts DEF Switch, SessionInv, SessionTypeOK
<1>2. PICK next :
          /\ next \in {[row EXCEPT !.active = IF c.value = Absent THEN ~c.seen.active ELSE c.value],
                       [row EXCEPT !.blocked = IF c.value = Absent THEN ~c.seen.blocked ELSE c.value]}
          /\ person' = [person EXCEPT ![c.user] = next]
    BY DEF Switch
<1>3. /\ authCall' = Watch(person', calls) /\ UNCHANGED <<session, device, silent>>
    BY DEF Switch, SessionInv, SessionTypeOK
<1>4. person' \in [People -> Person \cup {None}] /\ c.user \in People
    <2>1. c.user \in People /\ c.seen \in Person /\ c.value \in BOOLEAN \cup {Absent}
        BY <1>1 DEF SessionCallSound, SessionLivePhases, UserKinds, Switches, AuthCall
    <2>2. row \in Person
        BY <1>1, <2>1
    <2>3. next \in Person
        BY <1>2, <2>1, <2>2 DEF Person
    <2>4. QED
        BY <1>1, <1>2, <2>1, <2>3
<1>5. over \in AuthCall /\ SessionCallSound(over) /\ Stands(over) /\ over.phase = "done" /\ over.session = None
    BY <1>1, OverSound
<1>. HIDE DEF over
<1>6. /\ calls \in [AuthCalls -> AuthCall] /\ calls[r] = over
      /\ \A q \in AuthCalls \ {r} : calls[q] = authCall[q]
    BY <1>5 DEF SessionInv, SessionTypeOK
<1>. HIDE DEF calls
<1>7. ASSUME NEW q \in AuthCalls
      PROVE  /\ authCall'[q] \in AuthCall /\ Unmoved(calls[q], authCall'[q])
             /\ authCall'[q].barred /\ calls[q].user # None => ~MayLogin(person'[calls[q].user])
             /\ authCall'[q].cut = calls[q].cut
    <2>. DEFINE barred == calls[q].barred /\ (calls[q].user # None => ~MayLogin(person'[calls[q].user]))
    <2>1. calls[q] \in AuthCall /\ barred \in BOOLEAN
        BY <1>6
    <2>2. authCall'[q] = [calls[q] EXCEPT !.barred = barred]
        BY <1>3 DEF Watch
    <2>3. /\ barred => calls[q].barred
          /\ barred /\ calls[q].user # None => ~MayLogin(person'[calls[q].user])
        OBVIOUS
    <2>. HIDE DEF barred
    <2>4. QED
        BY <2>1, <2>2, <2>3 DEF AuthCall, Unmoved
<1>8. SessionTypeOK'
    <2>1. authCall' \in [AuthCalls -> AuthCall]
        BY <1>3, <1>7 DEF Watch
    <2>2. QED
        BY <1>3, <1>4, <2>1 DEF SessionInv, SessionTypeOK
<1>9. /\ SessionCallSound(authCall'[r]) /\ authCall'[r].phase = "done" /\ authCall'[r].session = None
      /\ \A q \in AuthCalls \ {r} : Unmoved(authCall[q], authCall'[q])
    BY <1>5, <1>6, <1>7, UnmovedSound DEF Unmoved
<1>10. ASSUME NEW q \in AuthCalls PROVE Stands(authCall[q])'
    <2>1. CASE q = r
        BY <1>9, <2>1 DEF Stands, RefreshPhases
    <2>2. CASE q # r
        <3>. DEFINE b == authCall[q]
                    d == authCall'[q]
        <3>1. /\ SessionCallSound(b) /\ Stands(b) /\ Unmoved(b, d) /\ d.cut = b.cut
              /\ d.barred /\ b.user # None => ~MayLogin(person'[b.user])
            BY <1>6, <1>7, <2>2, SessionCallFacts
        <3>2. b.barred /\ b.phase = "started" => b.user # None
            BY <3>1, SessionNoRow DEF SessionCallSound, SessionLivePhases, UserKinds
        <3>. HIDE DEF b, d
        <3>3. /\ d.phase = "started" /\ d.barred =>
                     /\ ~MayLogin(person'[d.user])
                     /\ d.kind = "refresh" /\ session[d.session] # None =>
                            session[d.session].user = d.user
              /\ d.kind = "refresh" /\ d.phase = "loaded" /\ d.cut => session[d.session] = None
              /\ d.kind = "refresh" /\ d.phase = "started" /\ d.cut /\ session[d.session] # None =>
                     session[d.session].expired
            BY <3>1, <3>2 DEF Stands, Unmoved
        <3>4. QED
            BY <1>3, <3>3 DEF Stands, d
    <2>3. QED
        BY <2>1, <2>2
<1>11. ASSUME NEW d \in silent'
       PROVE  /\ device'[d] = None
              /\ \A q \in AuthCalls \ {r} : authCall[q].phase \in AskingPhases => ~Asks(authCall[q], d)
    BY <1>3 DEF SessionInv, SilentSound
<1>12. "done" \notin FreshPhases \cup AskingPhases
    BY DEF FreshPhases, AskingPhases
<1>13. QED
    BY <1>3, <1>8, <1>9, <1>10, <1>11, <1>12, SessionKeeps

\* A session that expires is known to whoever is yet to find it.
LEMMA ExpireKeeps ==
    ASSUME SessionInv, NEW s \in SessionIds, Expire(s)
    PROVE  SessionInv'
<1>1. /\ session[s] \in SessionRow /\ session' = [session EXCEPT ![s].expired = TRUE]
      /\ authCall' = [q \in AuthCalls |->
                         [authCall[q] EXCEPT !.cut = @ \/ Seeks(authCall[q], s)]]
      /\ UNCHANGED <<person, device, silent>>
      /\ session \in [SessionIds -> SessionRow \cup {None}]
    BY DEF Expire, Sessions, SessionInv, SessionTypeOK
<1>2. /\ session'[s] \in SessionRow /\ session'[s].user = session[s].user /\ session'[s].expired
      /\ \A t \in SessionIds \ {s} : session'[t] = session[t]
      /\ session' \in [SessionIds -> SessionRow \cup {None}]
    BY <1>1 DEF SessionRow
<1>3. \A t \in SessionIds : /\ session'[t] = None <=> session[t] = None
                            /\ session'[t] # None => session'[t].user = session[t].user
                            /\ session'[t] # None /\ session[t].expired => session'[t].expired
    BY <1>1, <1>2, SessionNoRow
<1>4. ASSUME NEW q \in AuthCalls
      PROVE  /\ authCall'[q] \in AuthCall /\ Unmoved(authCall[q], authCall'[q])
             /\ authCall'[q].barred = authCall[q].barred
             /\ authCall'[q].cut => authCall[q].cut \/ Seeks(authCall[q], s)
    <2>. DEFINE cut == authCall[q].cut \/ Seeks(authCall[q], s)
    <2>1. authCall[q] \in AuthCall /\ cut \in BOOLEAN
        BY DEF SessionInv, SessionTypeOK, AuthCall, Seeks
    <2>2. authCall'[q] = [authCall[q] EXCEPT !.cut = cut]
        BY <1>1
    <2>3. /\ cut => authCall[q].cut \/ Seeks(authCall[q], s)
          /\ cut => authCall[q].cut \/ (authCall[q].kind = "refresh" /\ authCall[q].phase \in RefreshPhases)
        BY DEF Seeks, RefreshPhases
    <2>. HIDE DEF cut
    <2>4. QED
        BY <2>1, <2>2, <2>3 DEF AuthCall, Unmoved
<1>5. SessionTypeOK'
    <2>1. authCall' \in [AuthCalls -> AuthCall]
        BY <1>1, <1>4
    <2>2. QED
        BY <1>1, <1>2, <2>1 DEF SessionInv, SessionTypeOK
<1>6. ASSUME NEW q \in AuthCalls PROVE SessionCallSound(authCall[q])' /\ Stands(authCall[q])'
    <2>. DEFINE b == authCall[q]
                d == authCall'[q]
    <2>1. /\ SessionCallSound(b) /\ Stands(b) /\ Unmoved(b, d) /\ d.barred = b.barred
          /\ d.cut => b.cut \/ Seeks(b, s)
        BY <1>4, SessionCallFacts
    <2>2. SessionCallSound(d)
        BY <2>1, UnmovedSound
    <2>3. b.kind = "refresh" /\ b.phase \in {"started", "loaded"} => b.session \in SessionIds
        BY <2>1 DEF SessionCallSound, SessionLivePhases, SessionKinds
    <2>. HIDE DEF b, d
    <2>4. d.kind = "refresh" /\ d.phase = "loaded" /\ d.cut => session'[d.session] = None
        BY <1>3, <2>1, <2>3 DEF Stands, Seeks, Unmoved
    <2>5. d.kind = "refresh" /\ d.phase = "started" /\ d.cut /\ session'[d.session] # None =>
              session'[d.session].expired
        BY <1>2, <1>3, <2>1, <2>3 DEF Stands, Seeks, Unmoved
    <2>6. d.phase = "started" /\ d.barred =>
              /\ ~MayLogin(person[d.user])
              /\ d.kind = "refresh" /\ session'[d.session] # None => session'[d.session].user = d.user
        <3>1. d.phase = b.phase /\ d.kind = b.kind /\ d.user = b.user /\ d.session = b.session
            BY <2>1 DEF Unmoved
        <3>2. b.phase = "started" /\ b.barred =>
                  /\ ~MayLogin(person[b.user])
                  /\ b.kind = "refresh" /\ session[b.session] # None => session[b.session].user = b.user
            BY <2>1 DEF Stands
        <3>3. b.kind = "refresh" /\ b.phase = "started" => b.session \in SessionIds
            BY <2>3
        <3>4. QED
            BY <1>3, <2>1, <3>1, <3>2, <3>3
    <2>7. Stands(authCall[q])'
        BY <1>1, <2>4, <2>5, <2>6 DEF Stands, d
    <2>8. QED
        BY <2>2, <2>7 DEF SessionCallSound, d
<1>7. SessionNamesFresh' /\ SilentSound'
    BY <1>1, <1>3, <1>4 DEF SessionInv, SessionNamesFresh, SilentSound, Asks, Unmoved, SessionIds
<1>8. QED
    BY <1>5, <1>6, <1>7 DEF SessionInv

LEMMA StutterKeeps ==
    ASSUME SessionInv, UNCHANGED sessionVars
    PROVE  SessionInv'
<1>1. UNCHANGED <<person, session, device, silent, authCall>>
    BY DEF sessionVars
<1>2. SessionTypeOK' /\ SessionNamesFresh' /\ SilentSound'
    BY <1>1 DEF SessionInv, SessionTypeOK, SessionNamesFresh, SilentSound, Asks
<1>3. \A q \in AuthCalls : SessionCallSound(authCall[q])' /\ Stands(authCall[q])'
    BY <1>1, SessionCallFacts DEF SessionCallSound, Stands
<1>4. QED
    BY <1>2, <1>3 DEF SessionInv

LEMMA StepInv == SessionInv /\ [SessionNext]_sessionVars => SessionInv'
<1>. SUFFICES ASSUME SessionInv, [SessionNext]_sessionVars PROVE SessionInv'
    OBVIOUS
<1>1. CASE SessionNext
    <2>1. ASSUME NEW r \in AuthCalls, StartAuthCall(r) PROVE SessionInv'
        BY <2>1, SessionStartKeeps
    <2>2. ASSUME NEW r \in AuthCalls, LoadBearer(r) \/ FindSession(r) PROVE SessionInv'
        BY <2>2, LoadBearerKeeps, FindSessionKeeps
    <2>3. ASSUME NEW r \in AuthCalls,
                 LoadPerson(r) \/ LoadSession(r) \/ LoadDevice(r) \/ ReadDevices(r)
          PROVE  SessionInv'
        BY <2>3, OtherLoadsKeep
    <2>4. ASSUME NEW r \in AuthCalls, StopAuthCall(r) \/ TouchSession(r) PROVE SessionInv'
        BY <2>4, EndsKeep
    <2>5. ASSUME NEW r \in AuthCalls, OpenSession(r) \/ AddSession(r) PROVE SessionInv'
        BY <2>5, NewSessionKeeps
    <2>6. ASSUME NEW r \in AuthCalls,
                 DropExpired(r) \/ EndSession(r) \/ RemoveSession(r) \/ DeletePerson(r)
          PROVE  SessionInv'
        BY <2>6, SessionEndsKeep
    <2>7. ASSUME NEW r \in AuthCalls,
                 AnswerLogin(r) \/ ForgetDevice(r) \/ GiveDevice(r) \/ RemoveDevice(r) \/ SendToDevices(r)
          PROVE  SessionInv'
        BY <2>7, DeviceStepsKeep
    <2>8. ASSUME NEW r \in AuthCalls, EditSession(r) \/ Switch(r) PROVE SessionInv'
        BY <2>8, EditSessionKeeps, SwitchKeeps
    <2>9. ASSUME NEW s \in SessionIds, Expire(s) PROVE SessionInv'
        BY <2>9, ExpireKeeps
    <2>10. QED
        BY <1>1, <2>1, <2>2, <2>3, <2>4, <2>5, <2>6, <2>7, <2>8, <2>9 DEF SessionNext
<1>2. CASE UNCHANGED sessionVars
    BY <1>2, StutterKeeps
<1>3. QED
    BY <1>1, <1>2

LEMMA SessionInitInv == SessionInit => SessionInv
<1>. SUFFICES ASSUME SessionInit PROVE SessionInv
    OBVIOUS
<1>1. IdleAuthCall \in AuthCall /\ SessionCallSound(IdleAuthCall) /\ Stands(IdleAuthCall)
    BY DEF IdleAuthCall, AuthCall, AuthPhases, SessionCallSound, Stands, SessionLivePhases, RefreshPhases
<1>2. SessionTypeOK
    BY <1>1 DEF SessionInit, SessionTypeOK
<1>3. \A r \in AuthCalls : SessionCallSound(authCall[r]) /\ Stands(authCall[r])
    BY <1>1 DEF SessionInit
<1>4. SessionNamesFresh /\ SilentSound
    BY SessionNoRow DEF SessionInit, SessionNamesFresh, SilentSound, IdleAuthCall, SessionIds
<1>5. QED
    BY <1>2, <1>3, <1>4 DEF SessionInv

(***************************************************************************)
(* The theorems.                                                           *)
(***************************************************************************)
LEMMA InvCorrect == SessionSpec => []SessionInv
BY SessionInitInv, StepInv, PTL DEF SessionSpec

\* Whatever is sent to auth, users, refresh tokens and push tokens, and however the calls
\* overlap, the rows are of users, sessions and devices, and a switch has loaded its user.
THEOREM SessionTypeCorrect == SessionSpec => []SessionTypeOK
<1>1. SessionInv => SessionTypeOK
    BY DEF SessionInv
<1>2. QED
    BY <1>1, InvCorrect, PTL

\* login and refreshAccessToken give no token to a user who has been barred for as long as
\* the call has run, whatever the office does to users and sessions meanwhile.
THEOREM BarredCorrect == SessionSpec => []BarredGetNoToken
<1>1. SessionInv => BarredGetNoToken
    BY DEF SessionInv, BarredGetNoToken, SessionCallSound
<1>2. QED
    BY <1>1, InvCorrect, PTL

\* refreshAccessToken gives no token for a session that logout, the office, the deletion of
\* its user or another refresh removed while the call ran, nor for one that had expired
\* before the call found it.
THEOREM EndedCorrect == SessionSpec => []EndedGivesNoToken
<1>1. SessionInv => EndedGivesNoToken
    BY DEF SessionInv, EndedGivesNoToken, SessionCallSound
<1>2. QED
    BY <1>1, InvCorrect, PTL

\* After logout has forgotten a device it is nobody's, and sendPush does not find it, until
\* a login or the office asks for it, whichever calls on the device were under way.
THEOREM SilentCorrect == SessionSpec => []SilentAfterLogout
<1>1. SessionInv => SilentAfterLogout
    BY DEF SessionInv, SilentSound, SessionCallSound, SilentAfterLogout
<1>2. QED
    BY <1>1, InvCorrect, PTL
=============================================================================
