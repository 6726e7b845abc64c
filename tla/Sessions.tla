------------------------------- MODULE Sessions -------------------------------
(***************************************************************************)
(* Logins.  A login opens a session, named by a refresh token, and takes   *)
(* over the device it comes from; a session is good for fresh access       *)
(* tokens until it is ended or expires.  The office bars users and deletes *)
(* them, and edits sessions and devices.  Every call reads, and writes     *)
(* later what it has decided.                                              *)
(***************************************************************************)
EXTENDS Scope, FiniteSets

CONSTANTS
    People,         \* users; a subset of Users
    Devices,        \* push tokens
    SeedSessions,   \* sessions there are at the start
    AuthCalls,      \* identities of the calls; a session bears the name of its login
    AuthKinds       \* the kinds of call that are made

SessionIds == SeedSessions \cup AuthCalls

Person == [active : BOOLEAN, blocked : BOOLEAN]

SessionRow == [user : People, expired : BOOLEAN]

AllAuthKinds == {"login", "refresh", "logout", "setActive", "setBlocked", "deleteUser",
                 "addSession", "editSession", "endSession", "addDevice", "moveDevice", "dropDevice", "push"}

AuthPhases == {"idle", "started", "loaded", "opened", "expired", "issued", "done", "refused"}

\* seen is the row of the user as it was loaded, found the devices a push goes to;
\* barred, cut and quiet are history: the user has been barred ever since the call began;
\* the session to be refreshed has been removed since, or has expired and not been found;
\* the devices that were silent when the push read.
AuthCall == [phase : AuthPhases, kind : AllAuthKinds \cup {None}, user : People \cup {None},
             session : SessionIds \cup {None}, device : Devices \cup {None},
             value : BOOLEAN \cup {Absent}, seen : Person \cup {None},
             found : SUBSET Devices, barred : BOOLEAN, cut : BOOLEAN, quiet : SUBSET Devices]

ASSUME SessionAssumption ==
    /\ People \subseteq Users
    /\ SeedSessions \cap AuthCalls = {}
    /\ AuthKinds \subseteq AllAuthKinds
    /\ None \notin AllAuthKinds \cup SessionIds \cup Devices \cup Person \cup SessionRow
    /\ Absent \notin BOOLEAN

VARIABLES
    person,     \* person[u]: the row of user u, None if there is none
    session,    \* session[s]: the row of session s, None if there is none
    device,     \* device[d]: the user pushes to d are for, None if nobody
    silent,     \* history: the devices logged out since anybody last asked for them
    authCall    \* authCall[r]: the state of call r

sessionVars == <<person, session, device, silent, authCall>>

IdleAuthCall == [phase |-> "idle", kind |-> None, user |-> None, session |-> None,
                 device |-> None, value |-> Absent, seen |-> None, found |-> {},
                 barred |-> FALSE, cut |-> FALSE, quiet |-> {}]

SessionTypeOK ==
    /\ person \in [People -> Person \cup {None}]
    /\ session \in [SessionIds -> SessionRow \cup {None}]
    /\ device \in [Devices -> People \cup {None}]
    /\ silent \subseteq Devices
    /\ authCall \in [AuthCalls -> AuthCall]

\* checkUserCanLogin
MayLogin(row) == row # None /\ row.active /\ ~row.blocked

\* Whoever has been barred since a call began gets no access token from it, neither by
\* a login nor by a session that was open before: only calls that found the user
\* admitted may still come through.
BarredGetNoToken ==
    \A r \in AuthCalls : authCall[r].phase = "issued" => ~authCall[r].barred

\* A session gives no access token once it has been removed, by a logout, by the office,
\* with its user or as expired, not even to a call that found it before; nor when it had
\* expired before the call found it.  One that expires after it was found still does.
EndedGivesNoToken ==
    \A r \in AuthCalls : authCall[r].phase = "issued" => ~authCall[r].cut

\* A device that has been logged out is nobody's until somebody logs in from it or the
\* office gives it to a user, whatever calls on it were under way, and no push that reads
\* where to go in that time goes to it.  A push that had read before still goes out.
SilentAfterLogout ==
    /\ \A d \in silent : device[d] = None
    /\ \A r \in AuthCalls : authCall[r].kind = "push" /\ authCall[r].phase = "loaded" =>
                               authCall[r].found \cap authCall[r].quiet = {}

SessionInit ==
    /\ person \in [People -> Person]
    /\ session \in [SessionIds -> SessionRow \cup {None}]
    /\ \A r \in AuthCalls : session[r] = None
    /\ device \in [Devices -> People \cup {None}]
    /\ silent = {}
    /\ authCall = [r \in AuthCalls |-> IdleAuthCall]

Sessions == {s \in SessionIds : session[s] # None}

(***************************************************************************)
(* The steps calls have in common.                                         *)
(***************************************************************************)
Needs(kind) ==
    CASE kind \in {"login", "setActive", "setBlocked", "deleteUser", "addSession"} -> {"user"}
      [] kind \in {"refresh", "logout", "editSession", "endSession"} -> {"session"}
      [] kind \in {"addDevice", "moveDevice"} -> {"device", "user"}
      [] kind = "dropDevice" -> {"device"}
      [] kind = "push" -> {}

\* Some endpoints take a device if there is one, a value for the switch, or a new user; a
\* push is for a user or for everybody.
MayHave(kind) ==
    CASE kind \in {"login", "logout"} -> {"device"}
      [] kind \in {"setActive", "setBlocked"} -> {"value"}
      [] kind \in {"editSession", "push"} -> {"user"}
      [] OTHER -> {}

\* Calls that are to give somebody a device.
Asks(c, d) == c.device = d /\ c.kind \in {"login", "addDevice", "moveDevice"}

StartAuthCall(r) ==
    /\ authCall[r].phase = "idle"
    /\ \E kind \in AuthKinds, u \in People \cup {None}, s \in Sessions \cup {None},
          d \in Devices \cup {None}, value \in BOOLEAN \cup {Absent} :
          /\ u # None => "user" \in Needs(kind) \cup MayHave(kind)
          /\ u = None => "user" \notin Needs(kind)
          /\ (s # None) <=> "session" \in Needs(kind)
          /\ d # None => "device" \in Needs(kind) \cup MayHave(kind)
          /\ d = None => "device" \notin Needs(kind)
          /\ value # Absent => "value" \in MayHave(kind)
          /\ LET bearer == IF kind = "refresh" THEN session[s].user ELSE u
                 c == [IdleAuthCall EXCEPT !.phase = "started", !.kind = kind, !.user = bearer,
                                           !.session = s, !.device = d, !.value = value]
             IN  /\ authCall' = [authCall EXCEPT ![r] =
                        [c EXCEPT !.barred = kind \in {"login", "refresh"} /\ ~MayLogin(person[bearer]),
                                  !.cut = kind = "refresh" /\ session[s].expired]]
                 /\ silent' = IF Asks(c, d) THEN silent \ {d} ELSE silent
    /\ UNCHANGED <<person, session, device>>

\* What a call that is over leaves behind.
Over(c, phase) == [IdleAuthCall EXCEPT !.phase = phase, !.kind = c.kind, !.user = c.user,
                                       !.barred = c.barred, !.cut = c.cut]

AuthRead(r, permits, next) ==
    /\ authCall' = [authCall EXCEPT ![r] = IF permits THEN next ELSE Over(@, "refused")]
    /\ UNCHANGED <<person, session, device, silent>>

AuthStep(r, kind, phase) == authCall[r].kind = kind /\ authCall[r].phase = phase

Finish(r, phase) == authCall' = [authCall EXCEPT ![r] = Over(@, phase)]

\* Calls about to refresh a session that ends now.
Cut(calls, ended) ==
    [q \in AuthCalls |->
        [calls[q] EXCEPT !.cut = \/ @
                                 \/ /\ calls[q].kind = "refresh" /\ calls[q].session \in ended
                                    /\ calls[q].phase \in {"started", "loaded", "expired"}]]

\* A call that is to find session s.
Seeks(c, s) == c.kind = "refresh" /\ c.phase = "started" /\ c.session = s

\* A password is wrong, a row has gone, the database fails, or the process stops.
StopAuthCall(r) ==
    /\ authCall[r].phase \in {"started", "loaded", "opened", "expired"}
    /\ Finish(r, "refused")
    /\ UNCHANGED <<person, session, device, silent>>

(***************************************************************************)
(* login                                                                   *)
(***************************************************************************)
\* Slip: whether the user is barred is not asked.
LoadAnyBearer(r) ==
    LET c == authCall[r]
    IN  /\ AuthStep(r, "login", "started")
        /\ AuthRead(r, person[c.user] # None, [c EXCEPT !.phase = "loaded", !.seen = person[c.user]])

\* The password has been compared with the row's.
LoadBearer(r) ==
    LET c == authCall[r]
    IN  /\ AuthStep(r, "login", "started")
        /\ AuthRead(r, MayLogin(person[c.user]), [c EXCEPT !.phase = "loaded", !.seen = person[c.user]])

OpenSession(r) ==
    LET c == authCall[r]
    IN  /\ AuthStep(r, "login", "loaded") /\ person[c.user] # None
        /\ session' = [session EXCEPT ![r] = [user |-> c.user, expired |-> FALSE]]
        /\ authCall' = [authCall EXCEPT ![r].phase = "opened", ![r].session = r]
        /\ UNCHANGED <<person, device, silent>>

\* savePushToken takes the device over, and the tokens are handed out.
AnswerLogin(r) ==
    LET c == authCall[r]
    IN  /\ AuthStep(r, "login", "opened")
        /\ c.device # None => person[c.user] # None
        /\ device' = IF c.device = None THEN device ELSE [device EXCEPT ![c.device] = c.user]
        /\ Finish(r, "issued")
        /\ UNCHANGED <<person, session, silent>>

(***************************************************************************)
(* refresh                                                                 *)
(***************************************************************************)
FindSession(r) ==
    LET c == authCall[r]
        row == session[c.session]
    IN  /\ AuthStep(r, "refresh", "started")
        /\ IF row # None /\ row.expired
           THEN AuthRead(r, TRUE, [c EXCEPT !.phase = "expired"])
           ELSE AuthRead(r, row # None /\ MayLogin(person[row.user]),
                         [c EXCEPT !.phase = "loaded", !.seen = person[row.user]])

\* An expired session is removed, and the call refused.
DropExpired(r) ==
    /\ AuthStep(r, "refresh", "expired")
    /\ session' = [session EXCEPT ![authCall[r].session] = None]
    /\ authCall' = Cut([authCall EXCEPT ![r] = Over(@, "refused")], {authCall[r].session})
    /\ UNCHANGED <<person, device, silent>>

\* Slip: a session that has gone meanwhile is no error.
TouchAnySession(r) ==
    /\ AuthStep(r, "refresh", "loaded")
    /\ Finish(r, "issued")
    /\ UNCHANGED <<person, session, device, silent>>

\* The time of last use is written into the session, which must still be there; then the
\* access token is handed out.
TouchSession(r) ==
    /\ AuthStep(r, "refresh", "loaded") /\ authCall[r].session \in Sessions
    /\ Finish(r, "issued")
    /\ UNCHANGED <<person, session, device, silent>>

Expire(s) ==
    /\ s \in Sessions
    /\ session' = [session EXCEPT ![s].expired = TRUE]
    /\ authCall' = [q \in AuthCalls |->
                       [authCall[q] EXCEPT !.cut = @ \/ Seeks(authCall[q], s)]]
    /\ UNCHANGED <<person, device, silent>>

(***************************************************************************)
(* logout                                                                  *)
(***************************************************************************)
EndSession(r) ==
    /\ AuthStep(r, "logout", "started")
    /\ session' = [session EXCEPT ![authCall[r].session] = None]
    /\ authCall' = Cut([authCall EXCEPT ![r].phase = "loaded"], {authCall[r].session})
    /\ UNCHANGED <<person, device, silent>>

\* Slip: the device stays that of the user it was for.
KeepDevice(r) ==
    /\ AuthStep(r, "logout", "loaded")
    /\ silent' = silent \cup ({authCall[r].device} \ {None})
    /\ Finish(r, "done")
    /\ UNCHANGED <<person, session, device>>

\* The device is forgotten, whoever it is for by now.
ForgetDevice(r) ==
    LET d == authCall[r].device
        asked == \E q \in AuthCalls : authCall[q].phase \in {"started", "loaded", "opened"} /\ Asks(authCall[q], d)
    IN  /\ AuthStep(r, "logout", "loaded")
        /\ device' = [e \in Devices |-> IF e = d THEN None ELSE device[e]]
        /\ silent' = IF d = None \/ asked THEN silent ELSE silent \cup {d}
        /\ Finish(r, "done")
        /\ UNCHANGED <<person, session>>

(***************************************************************************)
(* The office: users, sessions and devices.                                *)
(***************************************************************************)
Switches == {"setActive", "setBlocked"}

\* toggleStatus, toggleBlocked, the deletion of a user, and a session added for one, all
\* load the row first.
LoadPerson(r) ==
    LET c == authCall[r]
    IN  /\ c.phase = "started" /\ c.kind \in Switches \cup {"deleteUser", "addSession"}
        /\ AuthRead(r, person[c.user] # None, [c EXCEPT !.phase = "loaded", !.seen = person[c.user]])

\* Calls of a user who is admitted now have not been barred ever since they began.
Watch(people, calls) ==
    [q \in AuthCalls |->
        [calls[q] EXCEPT !.barred = @ /\ (calls[q].user # None => ~MayLogin(people[calls[q].user]))]]

\* Without a value the switch is turned over, from where it was when it was loaded.
Switch(r) ==
    LET c == authCall[r]
        row == person[c.user]
        next == IF c.kind = "setActive"
                THEN [row EXCEPT !.active = IF c.value = Absent THEN ~c.seen.active ELSE c.value]
                ELSE [row EXCEPT !.blocked = IF c.value = Absent THEN ~c.seen.blocked ELSE c.value]
    IN  /\ c.phase = "loaded" /\ c.kind \in Switches /\ row # None
        /\ person' = [person EXCEPT ![c.user] = next]
        /\ authCall' = Watch(person', [authCall EXCEPT ![r] = Over(@, "done")])
        /\ UNCHANGED <<session, device, silent>>

\* Sessions and devices go with their user.
DeletePerson(r) ==
    LET u == authCall[r].user
        SessionsOf(v) == {s \in Sessions : session[s].user = v}
    IN  /\ AuthStep(r, "deleteUser", "loaded") /\ person[u] # None
        /\ person' = [person EXCEPT ![u] = None]
        /\ session' = [s \in SessionIds |-> IF s \in SessionsOf(u) THEN None ELSE session[s]]
        /\ device' = [d \in Devices |-> IF device[d] = u THEN None ELSE device[d]]
        /\ authCall' = Cut([authCall EXCEPT ![r] = Over(@, "done")], SessionsOf(u))
        /\ UNCHANGED silent

AddSession(r) ==
    /\ AuthStep(r, "addSession", "loaded") /\ person[authCall[r].user] # None
    /\ \E ended \in BOOLEAN :
          session' = [session EXCEPT ![r] = [user |-> authCall[r].user, expired |-> ended]]
    /\ Finish(r, "done")
    /\ UNCHANGED <<person, device, silent>>

LoadSession(r) ==
    /\ authCall[r].kind \in {"editSession", "endSession"} /\ authCall[r].phase = "started"
    /\ AuthRead(r, authCall[r].session \in Sessions, [authCall[r] EXCEPT !.phase = "loaded"])

\* The office gives the session another user, or another end, or both.
EditSession(r) ==
    LET c == authCall[r]
    IN  /\ AuthStep(r, "editSession", "loaded") /\ c.session \in Sessions
        /\ c.user # None => person[c.user] # None
        /\ \E ended \in BOOLEAN :
              /\ session' = [session EXCEPT ![c.session].expired = ended,
                                            ![c.session].user = IF c.user = None THEN @ ELSE c.user]
              /\ authCall' = [q \in AuthCalls |->
                     IF q = r THEN Over(c, "done")
                     ELSE [authCall[q] EXCEPT !.barred = @ /\ authCall[q].session # c.session,
                              !.cut = IF Seeks(authCall[q], c.session) THEN ended ELSE @]]
        /\ UNCHANGED <<person, device, silent>>

RemoveSession(r) ==
    LET s == authCall[r].session
    IN  /\ AuthStep(r, "endSession", "loaded") /\ s \in Sessions
        /\ session' = [session EXCEPT ![s] = None]
        /\ authCall' = Cut([authCall EXCEPT ![r] = Over(@, "done")], {s})
        /\ UNCHANGED <<person, device, silent>>

\* A new push token must not be known yet; one to be edited or removed must be.
LoadDevice(r) ==
    LET c == authCall[r]
    IN  /\ c.kind \in {"addDevice", "moveDevice", "dropDevice"} /\ c.phase = "started"
        /\ AuthRead(r, /\ (device[c.device] = None) <=> c.kind = "addDevice"
                       /\ c.user # None => person[c.user] # None,
                    [c EXCEPT !.phase = "loaded"])

GiveDevice(r) ==
    LET c == authCall[r]
    IN  /\ c.kind \in {"addDevice", "moveDevice"} /\ c.phase = "loaded"
        /\ (device[c.device] = None) <=> c.kind = "addDevice"
        /\ person[c.user] # None
        /\ device' = [device EXCEPT ![c.device] = c.user]
        /\ Finish(r, "done")
        /\ UNCHANGED <<person, session, silent>>

RemoveDevice(r) ==
    /\ AuthStep(r, "dropDevice", "loaded")
    /\ device' = [device EXCEPT ![authCall[r].device] = None]
    /\ Finish(r, "done")
    /\ UNCHANGED <<person, session, silent>>

(***************************************************************************)
(* A push goes to the devices the user has, or to all there are; those     *)
(* Firebase does not know are forgotten, whoever they are for by then.     *)
(***************************************************************************)
ReadDevices(r) ==
    LET c == authCall[r]
        found == {d \in Devices : /\ device[d] # None
                                  /\ c.user # None => device[d] = c.user}
    IN  /\ AuthStep(r, "push", "started")
        /\ AuthRead(r, found # {},
               [c EXCEPT !.phase = "loaded", !.found = found, !.quiet = silent])

SendToDevices(r) ==
    /\ AuthStep(r, "push", "loaded")
    /\ \E unknown \in SUBSET authCall[r].found :
          device' = [d \in Devices |-> IF d \in unknown THEN None ELSE device[d]]
    /\ Finish(r, "done")
    /\ UNCHANGED <<person, session, silent>>

SessionNext ==
    \/ \E r \in AuthCalls :
          \/ StartAuthCall(r) \/ LoadBearer(r) \/ OpenSession(r) \/ AnswerLogin(r)
          \/ FindSession(r) \/ DropExpired(r) \/ TouchSession(r)
          \/ EndSession(r) \/ ForgetDevice(r)
          \/ LoadPerson(r) \/ Switch(r) \/ DeletePerson(r)
          \/ AddSession(r) \/ LoadSession(r) \/ EditSession(r) \/ RemoveSession(r)
          \/ LoadDevice(r) \/ GiveDevice(r) \/ RemoveDevice(r)
          \/ ReadDevices(r) \/ SendToDevices(r) \/ StopAuthCall(r)
    \/ \E s \in SessionIds : Expire(s)

SessionSpec == SessionInit /\ [][SessionNext]_sessionVars
=============================================================================
