------------------------- MODULE UserAccountsProofs -------------------------
(***************************************************************************)
(* What overlapping requests never do to people and their roles, proved    *)
(* for any number of sessions, people, messengers and configured numbers,  *)
(* and what holds as long as requests do not overlap.  The first invariant *)
(* says what a request in flight knows of the person it is about; the      *)
(* second, that while requests come one after another it knows the row as  *)
(* it is.                                                                  *)
(***************************************************************************)
EXTENDS MCUserAccounts, TLAPS

\* What a request in flight knows: past the first read, who is behind it unless it is a
\* shared contact, and past the second it holds a copy of a row that exists.
RequestOK(q) ==
  /\ q.subject # None => q.subject \in DOMAIN users /\ q.me \in User
  /\ q.stage # "gated" /\ q.command.kind # "RegisterUser" => q.subject # None
  /\ q.stage = "loaded" /\ q.command.kind # "RegisterUser" => q.target # None
  /\ q.target # None => q.target \in DOMAIN users /\ q.seen \in User

\* Nothing is recorded about somebody who is not registered.
NoTrailBefore == \A u \in UserIds : u \notin DOMAIN users => trail[u] = <<>>

IInv ==
  /\ TypeOK
  /\ \A s \in Sessions : session[s] # None => RequestOK(session[s])
  /\ NoTrailBefore
  /\ TrailTellsTheRole

\* What a request knows while it is the only one.
Fresh(q) ==
  /\ q.subject # None => q.me = users[q.subject]
  /\ q.target # None => q.seen = users[q.target]
  /\ q.stage = "loaded" /\ q.target = None => \A u \in DOMAIN users : ~Finds(q, u)

InSequence ==
  /\ OneAtATime
  /\ \A s \in Sessions : session[s] # None => Fresh(session[s])
  /\ seeding # None =>
       /\ DOMAIN seeding = {u \in DOMAIN users : users[u].phone_number \in registry}
       /\ \A u \in DOMAIN seeding : seeding[u] = users[u].role
  /\ NoGap
  /\ NotifyViaIsLinked
  /\ NeverTurnedAway

SeqInv == alone => InSequence
-----------------------------------------------------------------------------
(* The operators *)

\* A command carries the fields of its kind.
LEMMA CommandShape ==
  ASSUME NEW c \in Commands
  PROVE  /\ c.kind = "RegisterUser" =>
              c.phone_number \in Phones /\ c.full_name \in Names /\ c.locale \in Locales
         /\ c.kind = "RenameUser" => c.full_name \in Names
         /\ c.kind = "ChangeUserLocale" => c.locale \in Locales
         /\ c.kind = "ChangeNotificationPreferences" =>
              c.notify_via \in Platforms /\ c.marketing_consent \in BOOLEAN
         /\ c.kind = "UnlinkMessengerAccount" => c.platform \in Platforms
         /\ c.kind = "ChangeUserRole" => c.role \in Role
         /\ c.kind = "BlockUser" => c.reason \in Reasons
<1>1. c \in Command
  BY UserAssumption
<1> QED BY <1>1 DEF Command

\* What a commit writes is a row, and the number of a person is never written.
LEMMA FlushType ==
  ASSUME NEW seen \in User, NEW after \in User, NEW row \in User
  PROVE  /\ Flush(seen, after, row) \in User
         /\ Flush(seen, after, row).phone_number = row.phone_number
<1>1. [p \in Platforms |->
         IF after.accounts[p] = None /\ seen.accounts[p] # row.accounts[p]
           THEN row.accounts[p]
           ELSE IF after.accounts[p] # seen.accounts[p]
                  THEN after.accounts[p] ELSE row.accounts[p]]
        \in [Platforms -> ExternalIds \cup {None}]
  BY DEF User
<1> QED BY <1>1 DEF Flush, User

\* A copy that is not older than the row is written as it is.
LEMMA FlushFresh ==
  ASSUME NEW seen \in User, NEW after \in User,
         after.phone_number = seen.phone_number
  PROVE  Flush(seen, after, seen) = after
<1>1. [p \in Platforms |->
         IF after.accounts[p] = None /\ seen.accounts[p] # seen.accounts[p]
           THEN seen.accounts[p]
           ELSE IF after.accounts[p] # seen.accounts[p]
                  THEN after.accounts[p] ELSE seen.accounts[p]]
        = after.accounts
  BY DEF User
<1> QED BY <1>1 DEF Flush, User

\* A column the method left alone keeps what the row holds, however old the copy.
LEMMA FlushKeeps ==
  ASSUME NEW seen \in User, NEW after \in User, NEW row \in User
  PROVE  LET new == Flush(seen, after, row)
         IN  /\ after.full_name = seen.full_name => new.full_name = row.full_name
             /\ after.locale = seen.locale => new.locale = row.locale
             /\ after.marketing_consent = seen.marketing_consent
                  => new.marketing_consent = row.marketing_consent
             /\ after.notify_via = seen.notify_via => new.notify_via = row.notify_via
             /\ after.role = seen.role => new.role = row.role
             /\ after.role # seen.role => new.role = after.role
             /\ after.status = seen.status => new.status = row.status
             /\ after.block_reason = seen.block_reason
                  => new.block_reason = row.block_reason
             /\ after.accounts = seen.accounts => new.accounts = row.accounts
<1>1. ASSUME after.accounts = seen.accounts
      PROVE  [p \in Platforms |->
                IF after.accounts[p] = None /\ seen.accounts[p] # row.accounts[p]
                  THEN row.accounts[p]
                  ELSE IF after.accounts[p] # seen.accounts[p]
                         THEN after.accounts[p] ELSE row.accounts[p]]
               = row.accounts
  BY <1>1 DEF User
<1> QED BY <1>1 DEF Flush

\* Blocking writes the status and the reason.
LEMMA BlockedRow ==
  ASSUME NEW user \in User, NEW reason \in Reasons
  PROVE  LET new == block(user, reason)
         IN  /\ new \in User
             /\ new.phone_number = user.phone_number /\ new.full_name = user.full_name
             /\ new.locale = user.locale /\ new.notify_via = user.notify_via
             /\ new.marketing_consent = user.marketing_consent
             /\ new.role = user.role /\ new.accounts = user.accounts
<1> DEFINE mid == [user EXCEPT !.status = "BLOCKED"]
           new == [mid EXCEPT !.block_reason = reason]
<1>1. /\ mid \in User
      /\ mid.phone_number = user.phone_number /\ mid.full_name = user.full_name
      /\ mid.locale = user.locale /\ mid.notify_via = user.notify_via
      /\ mid.marketing_consent = user.marketing_consent
      /\ mid.role = user.role /\ mid.accounts = user.accounts
  BY DEF User
<1> HIDE DEF mid
<1>2. /\ new \in User
      /\ new.phone_number = mid.phone_number /\ new.full_name = mid.full_name
      /\ new.locale = mid.locale /\ new.notify_via = mid.notify_via
      /\ new.marketing_consent = mid.marketing_consent
      /\ new.role = mid.role /\ new.accounts = mid.accounts
  BY <1>1 DEF User
<1>3. new = block(user, reason)
  BY DEF mid, block
<1> HIDE DEF new
<1> QED BY <1>1, <1>2, <1>3

\* Unblocking writes the same two columns.
LEMMA UnblockedRow ==
  ASSUME NEW user \in User
  PROVE  LET new == unblock(user)
         IN  /\ new \in User
             /\ new.phone_number = user.phone_number /\ new.full_name = user.full_name
             /\ new.locale = user.locale /\ new.notify_via = user.notify_via
             /\ new.marketing_consent = user.marketing_consent
             /\ new.role = user.role /\ new.accounts = user.accounts
<1> DEFINE mid == [user EXCEPT !.status = "ACTIVE"]
           new == [mid EXCEPT !.block_reason = None]
<1>1. /\ mid \in User
      /\ mid.phone_number = user.phone_number /\ mid.full_name = user.full_name
      /\ mid.locale = user.locale /\ mid.notify_via = user.notify_via
      /\ mid.marketing_consent = user.marketing_consent
      /\ mid.role = user.role /\ mid.accounts = user.accounts
  BY DEF User
<1> HIDE DEF mid
<1>2. /\ new \in User
      /\ new.phone_number = mid.phone_number /\ new.full_name = mid.full_name
      /\ new.locale = mid.locale /\ new.notify_via = mid.notify_via
      /\ new.marketing_consent = mid.marketing_consent
      /\ new.role = mid.role /\ new.accounts = mid.accounts
  BY <1>1 DEF User
<1>3. new = unblock(user)
  BY DEF mid, unblock
<1> HIDE DEF new
<1> QED BY <1>1, <1>2, <1>3

\* An event that is no change of role leaves what the trail tells.
LEMMA OtherEventsTellTheSame ==
  ASSUME NEW events \in Seq(Event), NEW role, TellsRole(events, role),
         NEW e \in Event, e.type # "UserRoleChanged"
  PROVE  TellsRole(events \o <<e>>, role)
<1> DEFINE longer == events \o <<e>>
<1>1. /\ DOMAIN events = 1..Len(events) /\ Len(events) \in Nat
      /\ DOMAIN longer = 1..(Len(events) + 1)
      /\ \A i \in DOMAIN events : longer[i] = events[i]
      /\ longer[Len(events) + 1] = e
  OBVIOUS
<1> HIDE DEF longer
<1>2. \A i \in DOMAIN longer : i \in DOMAIN events \/ i = Len(events) + 1
  BY <1>1
<1> SUFFICES TellsRole(longer, role)
  BY DEF longer
<1>3. CASE /\ role = "CUSTOMER"
           /\ \A i \in DOMAIN events : events[i].type # "UserRoleChanged"
  BY <1>1, <1>2, <1>3 DEF TellsRole
<1>4. CASE \E i \in DOMAIN events :
             /\ events[i].type = "UserRoleChanged"
             /\ events[i].new_role = role
             /\ \A j \in DOMAIN events : j > i => events[j].type # "UserRoleChanged"
  <2>1. PICK i \in DOMAIN events :
             /\ events[i].type = "UserRoleChanged"
             /\ events[i].new_role = role
             /\ \A j \in DOMAIN events : j > i => events[j].type # "UserRoleChanged"
    BY <1>4
  <2>2. /\ i \in DOMAIN longer
        /\ longer[i].type = "UserRoleChanged" /\ longer[i].new_role = role
        /\ \A j \in DOMAIN longer : j > i => longer[j].type # "UserRoleChanged"
    BY <1>1, <1>2, <2>1
  <2> QED BY <2>2 DEF TellsRole
<1> QED BY <1>3, <1>4 DEF TellsRole

\* A recorded change of role is what the trail tells from then on.
LEMMA ChangeIsTold ==
  ASSUME NEW events \in Seq(Event), NEW old \in Role, NEW new \in Role
  PROVE  TellsRole(events \o <<UserRoleChanged(old, new)>>, new)
<1> DEFINE e == UserRoleChanged(old, new)
           longer == events \o <<e>>
<1>1. /\ Len(events) \in Nat
      /\ DOMAIN longer = 1..(Len(events) + 1)
      /\ longer[Len(events) + 1] = e
  OBVIOUS
<1>2. e.type = "UserRoleChanged" /\ e.new_role = new
  BY DEF UserRoleChanged
<1> HIDE DEF e, longer
<1>3. /\ Len(events) + 1 \in DOMAIN longer
      /\ longer[Len(events) + 1].type = "UserRoleChanged"
      /\ longer[Len(events) + 1].new_role = new
      /\ \A j \in DOMAIN longer : ~(j > Len(events) + 1)
  BY <1>1, <1>2
<1>4. TellsRole(longer, new)
  BY <1>3 DEF TellsRole
<1> QED BY <1>4 DEF longer, e

\* The events a handler records are events.
LEMMA EventTypes ==
  /\ \A t \in {"UserRegistered", "MessengerAccountLinked",
               "MessengerAccountUnlinked", "UserRenamed",
               "UserPreferencesChanged", "UserBlocked", "UserUnblocked"} :
        Recorded(t) \in Event /\ Recorded(t).type # "UserRoleChanged"
  /\ \A old, new \in Role : UserRoleChanged(old, new) \in Event
BY DEF Recorded, UserRoleChanged, Event
-----------------------------------------------------------------------------
(* The requests *)

LEMMA InitIInv == Init => IInv
<1> SUFFICES ASSUME Init PROVE IInv
  OBVIOUS
<1> USE DEF Init
<1>1. users \in [DOMAIN users -> User] /\ DOMAIN users = {}
  OBVIOUS
<1>2. trail \in [UserIds -> Seq(Event)]
  OBVIOUS
<1>3. TypeOK
  BY <1>1, <1>2 DEF TypeOK
<1> QED BY <1>1, <1>3 DEF IInv, NoTrailBefore, TrailTellsTheRole

\* A request that writes nothing: what the session holds next is sound, and the
\* tables are as they were.
LEMMA QuietStep ==
  ASSUME IInv, NEW s \in Sessions, NEW q \in Request \cup {None},
         q # None => RequestOK(q),
         session' = [session EXCEPT ![s] = q],
         UNCHANGED <<users, trail, admin>>,
         answer' \in [Account -> {None, "welcome", "taken"}]
  PROVE  IInv'
<1>1. TypeOK'
  BY DEF IInv, TypeOK, admin
<1>2. ASSUME NEW t \in Sessions, session'[t] # None
      PROVE  RequestOK(session[t])'
  <2>1. session'[t] = session[t] \/ session'[t] = q
    BY DEF IInv, TypeOK
  <2>2. RequestOK(session'[t])
    BY <1>2, <2>1 DEF IInv, TypeOK
  <2> QED BY <2>2 DEF RequestOK
<1>3. NoTrailBefore' /\ TrailTellsTheRole'
  BY DEF IInv, NoTrailBefore, TrailTellsTheRole, TellsRole
<1> QED BY <1>1, <1>2, <1>3 DEF IInv

LEMMA EndQuietly ==
  ASSUME IInv, NEW s \in Sessions, Ends(s), UNCHANGED <<users, trail, admin>>,
         answer' \in [Account -> {None, "welcome", "taken"}]
  PROVE  IInv'
BY QuietStep DEF Ends

LEMMA GateStep ==
  ASSUME IInv, NEW s \in Sessions, NEW a \in Account, NEW c \in Commands,
         (\E u \in DOMAIN users : GateKnown(s, a, c, u)) \/ GateStranger(s, a, c)
  PROVE  IInv'
<1> DEFINE q == [account |-> a, command |-> c, stage |-> "gated", subject |-> None,
                 me |-> None, target |-> None, seen |-> None]
<1>1. q \in Request /\ RequestOK(q)
  BY DEF Request, RequestOK
<1> HIDE DEF q
<1>2. session' = [session EXCEPT ![s] = q] /\ UNCHANGED <<users, trail, admin, answer>>
  BY DEF GateKnown, GateStranger, Opens, q
<1> QED BY <1>1, <1>2, QuietStep DEF IInv, TypeOK

\* Who is behind the account is read before the person the command names.
LEMMA LoadSubjectStep ==
  ASSUME IInv, NEW s \in Sessions, NEW u \in DOMAIN users, LoadSubject(s, u)
  PROVE  IInv'
<1> DEFINE q == session[s]
           r == [q EXCEPT !.stage = "known", !.subject = u, !.me = users[u]]
<1>1. u \in UserIds /\ users[u] \in User /\ u # None
  BY UserAssumption DEF IInv, TypeOK
<1>2. q \in Request /\ RequestOK(q)
  BY DEF LoadSubject, IInv, TypeOK
<1>3. r \in Request /\ RequestOK(r)
  BY <1>1, <1>2 DEF Request, RequestOK
<1> HIDE DEF r
<1>4. session' = [session EXCEPT ![s] = r] /\ UNCHANGED <<users, trail, admin, answer>>
  BY DEF LoadSubject, r
<1> QED BY <1>3, <1>4, QuietStep DEF IInv, TypeOK

\* A read hands the request a copy of a row that exists, or finds nobody.
LEMMA ReadStep ==
  ASSUME IInv, NEW s \in Sessions, session[s] # None,
         NEW u \in UserIds \cup {None}, NEW row \in User \cup {None},
         u # None => u \in DOMAIN users /\ row \in User,
         session[s].command.kind # "RegisterUser" => u # None /\ session[s].stage # "gated",
         session' = [session EXCEPT ![s] =
           [session[s] EXCEPT !.stage = "loaded", !.target = u, !.seen = row]],
         UNCHANGED <<users, trail, admin, answer>>
  PROVE  IInv'
<1> DEFINE q == session[s]
           r == [q EXCEPT !.stage = "loaded", !.target = u, !.seen = row]
<1>1. q \in Request /\ RequestOK(q)
  BY DEF IInv, TypeOK
<1>2. r \in Request /\ RequestOK(r)
  BY <1>1 DEF Request, RequestOK
<1>3. answer' \in [Account -> {None, "welcome", "taken"}]
  BY DEF IInv, TypeOK
<1> HIDE DEF r
<1>4. session' = [session EXCEPT ![s] = r]
  BY DEF r
<1> QED BY <1>2, <1>3, <1>4, QuietStep

LEMMA LoadTargetStep ==
  ASSUME IInv, NEW s \in Sessions, NEW u \in DOMAIN users, LoadTarget(s, u)
  PROVE  IInv'
<1> DEFINE q == session[s]
           row == IF u = q.subject THEN q.me ELSE users[u]
<1>1. u \in UserIds /\ users[u] \in User /\ u # None
  BY UserAssumption DEF IInv, TypeOK
<1>2. q # None /\ RequestOK(q) /\ q.stage # "gated"
  BY DEF LoadTarget, IInv
<1>3. row \in User
  BY <1>1, <1>2 DEF RequestOK
<1>4. session' = [session EXCEPT ![s] =
        [session[s] EXCEPT !.stage = "loaded", !.target = u, !.seen = row]]
  BY DEF LoadTarget
<1>5. UNCHANGED <<users, trail, admin, answer>>
  BY DEF LoadTarget
<1> HIDE DEF row
<1> QED BY <1>1, <1>2, <1>3, <1>4, <1>5, ReadStep

LEMMA LoadContactStep ==
  ASSUME IInv, NEW s \in Sessions, LoadContact(s)
  PROVE  IInv'
<1> DEFINE q == session[s]
           Loaded(u, row) == session' = [session EXCEPT ![s] =
             [session[s] EXCEPT !.stage = "loaded", !.target = u, !.seen = row]]
<1>1. /\ q # None /\ RequestOK(q) /\ q.command.kind = "RegisterUser"
      /\ UNCHANGED <<users, trail, admin, answer>>
  BY DEF LoadContact, IInv
<1>2. CASE \E u \in DOMAIN users : Loaded(u, users[u])
  <2>1. PICK u \in DOMAIN users : Loaded(u, users[u])
    BY <1>2
  <2>2. u \in UserIds /\ users[u] \in User /\ u # None
    BY UserAssumption DEF IInv, TypeOK
  <2> QED BY <1>1, <2>1, <2>2, ReadStep
<1>3. CASE Loaded(None, None)
  BY <1>1, <1>3, ReadStep
<1> QED BY <1>2, <1>3 DEF LoadContact

\* A commit: the row of the person the request is about is written, and the
\* events recorded tell the role that the row now holds.
LEMMA CommitStep ==
  ASSUME IInv, NEW s \in Sessions, session[s] # None, session[s].target # None,
         NEW after \in User, NEW events \in Seq(Event),
         Commit(s, after, events),
         TellsRole(trail[session[s].target] \o events,
                   Flush(session[s].seen, after, users[session[s].target]).role),
         answer' \in [Account -> {None, "welcome", "taken"}]
  PROVE  IInv'
<1> DEFINE q == session[s]
           u == q.target
           row == Flush(q.seen, after, users[u])
<1>1. u \in DOMAIN users /\ q.seen \in User /\ u \in UserIds /\ users[u] \in User
  BY DEF IInv, TypeOK, RequestOK
<1>2. row \in User
  BY <1>1, FlushType
<1> HIDE DEF row
<1>3. /\ users' = [users EXCEPT ![u] = row]
      /\ trail' = [trail EXCEPT ![u] = @ \o events]
      /\ session' = [session EXCEPT ![s] = None]
      /\ UNCHANGED <<registry, seeding>>
  BY DEF Commit, Ends, admin, row
<1> HIDE DEF u
<1>4. DOMAIN users' = DOMAIN users
  BY <1>3
<1>5. trail[u] \o events \in Seq(Event)
  BY <1>1 DEF IInv, TypeOK
<1>6. users' \in [DOMAIN users' -> User] /\ trail' \in [UserIds -> Seq(Event)]
  BY <1>1, <1>2, <1>3, <1>5 DEF IInv, TypeOK
<1>7. session' \in [Sessions -> Request \cup {None}]
  BY <1>3 DEF IInv, TypeOK
<1>8. TypeOK'
  BY <1>3, <1>4, <1>6, <1>7 DEF IInv, TypeOK
<1>9. ASSUME NEW t \in Sessions, session'[t] # None
      PROVE  RequestOK(session[t])'
  <2>1. session'[t] = session[t] /\ RequestOK(session[t])
    BY <1>3, <1>9 DEF IInv, TypeOK
  <2> QED BY <1>4, <2>1 DEF RequestOK
<1>10. NoTrailBefore'
  BY <1>1, <1>3, <1>4 DEF IInv, TypeOK, NoTrailBefore
<1>11. ASSUME NEW x \in DOMAIN users'
       PROVE  TellsRole(trail'[x], users'[x].role)
  <2>1. CASE x = u
    <3>1. trail'[x] = trail[u] \o events /\ users'[x] = row
      BY <1>1, <1>3, <2>1 DEF IInv, TypeOK
    <3> QED BY <3>1 DEF row, u
  <2>2. CASE x # u
    <3>1. x \in UserIds /\ trail'[x] = trail[x] /\ users'[x] = users[x]
      BY <1>3, <1>4, <2>2 DEF IInv, TypeOK
    <3> QED BY <1>4, <1>11, <3>1 DEF IInv, TrailTellsTheRole
  <2> QED BY <2>1, <2>2
<1> QED BY <1>8, <1>9, <1>10, <1>11 DEF IInv, TrailTellsTheRole, TellsRole

\* A method that is not about the role, committed with the event it recorded.
LEMMA PlainChangeStep ==
  ASSUME IInv, NEW s \in Sessions, session[s] # None, session[s].target # None,
         NEW after \in User, after.role = session[s].seen.role,
         NEW e \in Event, e.type # "UserRoleChanged",
         \/ Commit(s, after, <<>>)
         \/ Commit(s, after, <<e>>),
         answer' \in [Account -> {None, "welcome", "taken"}]
  PROVE  IInv'
<1> DEFINE q == session[s]
           u == q.target
<1>1. u \in DOMAIN users /\ q.seen \in User /\ u \in UserIds /\ users[u] \in User
  BY DEF IInv, TypeOK, RequestOK
<1>2. Flush(q.seen, after, users[u]).role = users[u].role
  BY <1>1, FlushKeeps
<1>3. trail[u] \in Seq(Event) /\ TellsRole(trail[u], users[u].role)
  BY <1>1 DEF IInv, TypeOK, TrailTellsTheRole
<1>4. TellsRole(trail[u] \o <<e>>, users[u].role)
  BY <1>3, OtherEventsTellTheSame
<1>5. trail[u] \o <<>> = trail[u] /\ <<>> \in Seq(Event) /\ <<e>> \in Seq(Event)
  BY <1>3
<1> HIDE DEF u
<1>6. CASE Commit(s, after, <<>>)
  BY <1>2, <1>3, <1>5, <1>6, CommitStep DEF u
<1>7. CASE Commit(s, after, <<e>>)
  BY <1>2, <1>4, <1>5, <1>7, CommitStep DEF u
<1> QED BY <1>6, <1>7

\* What a command about a person works on.
LEMMA ServedRequest ==
  ASSUME IInv, NEW s \in Sessions, NEW kind, kind # "RegisterUser", Serving(s, kind)
  PROVE  LET q == session[s]
         IN  /\ q # None /\ q \in Request /\ q.command \in Commands
             /\ q.command.kind = kind
             /\ q.target # None /\ q.target \in DOMAIN users /\ q.target \in UserIds
             /\ users[q.target] \in User
             /\ q.seen \in User
             /\ q.subject \in DOMAIN users /\ q.me \in User
             /\ answer \in [Account -> {None, "welcome", "taken"}]
BY DEF Serving, IInv, TypeOK, RequestOK, Request

LEMMA RenameStep ==
  ASSUME IInv, NEW s \in Sessions, RenameUser(s)
  PROVE  IInv'
<1> DEFINE q == session[s]
           after == rename(q.seen, q.command.full_name)
<1>1. /\ Serving(s, "RenameUser") /\ UNCHANGED answer
      /\ \/ Commit(s, after, <<>>) \/ Commit(s, after, <<Recorded("UserRenamed")>>)
  BY DEF RenameUser, Change
<1>2. after \in User /\ after.role = q.seen.role
  BY <1>1, ServedRequest, CommandShape DEF rename, User
<1> HIDE DEF after
<1> QED BY <1>1, <1>2, ServedRequest, EventTypes, PlainChangeStep

LEMMA LocaleStep ==
  ASSUME IInv, NEW s \in Sessions, ChangeUserLocale(s)
  PROVE  IInv'
<1> DEFINE q == session[s]
           after == WithLocale(q.seen, q.command.locale)
<1>1. /\ Serving(s, "ChangeUserLocale") /\ UNCHANGED answer
      /\ \/ Commit(s, after, <<>>)
         \/ Commit(s, after, <<Recorded("UserPreferencesChanged")>>)
  BY DEF ChangeUserLocale, Change
<1>2. after \in User /\ after.role = q.seen.role
  BY <1>1, ServedRequest, CommandShape DEF WithLocale, User
<1> HIDE DEF after
<1> QED BY <1>1, <1>2, ServedRequest, EventTypes, PlainChangeStep

LEMMA PreferencesStep ==
  ASSUME IInv, NEW s \in Sessions, ChangeNotificationPreferences(s)
  PROVE  IInv'
<1> DEFINE q == session[s]
           after == WithNotification(q.seen, q.command.notify_via,
                                     q.command.marketing_consent)
<1>1. /\ Serving(s, "ChangeNotificationPreferences") /\ UNCHANGED answer
      /\ \/ Commit(s, after, <<>>)
         \/ Commit(s, after, <<Recorded("UserPreferencesChanged")>>)
  BY DEF ChangeNotificationPreferences, Change
<1>2. after \in User /\ after.role = q.seen.role
  <2>1. /\ q.seen \in User
        /\ q.command.notify_via \in Platforms /\ q.command.marketing_consent \in BOOLEAN
    BY <1>1, ServedRequest, CommandShape
  <2> QED BY <2>1, ZenonT(60) DEF WithNotification, User
<1> HIDE DEF after
<1> QED BY <1>1, <1>2, ServedRequest, EventTypes, PlainChangeStep

LEMMA UnlinkStep ==
  ASSUME IInv, NEW s \in Sessions, UnlinkMessengerAccount(s)
  PROVE  IInv'
<1> DEFINE q == session[s]
<1>1. PICK next \in Linked(q.seen) :
        /\ Serving(s, "UnlinkMessengerAccount")
        /\ Change(s, unlink_account(q.seen, q.command.platform, next),
                  Recorded("MessengerAccountUnlinked"))
  BY DEF UnlinkMessengerAccount
<1> DEFINE after == unlink_account(q.seen, q.command.platform, next)
<1>2. /\ UNCHANGED answer
      /\ \/ Commit(s, after, <<>>)
         \/ Commit(s, after, <<Recorded("MessengerAccountUnlinked")>>)
  BY <1>1 DEF Change
<1>3. after \in User /\ after.role = q.seen.role
  <2>1. q.seen \in User /\ q.command.platform \in Platforms /\ next \in Platforms
    BY <1>1, ServedRequest, CommandShape DEF Linked
  <2> QED BY <2>1, ZenonT(60) DEF unlink_account, User
<1> HIDE DEF after
<1> QED BY <1>1, <1>2, <1>3, ServedRequest, EventTypes, PlainChangeStep

LEMMA BlockStep ==
  ASSUME IInv, NEW s \in Sessions, BlockUser(s)
  PROVE  IInv'
<1> DEFINE q == session[s]
           after == block(q.seen, q.command.reason)
<1>1. /\ Serving(s, "BlockUser") /\ UNCHANGED answer
      /\ \/ Commit(s, after, <<>>) \/ Commit(s, after, <<Recorded("UserBlocked")>>)
  BY DEF BlockUser, Change
<1>2. after \in User /\ after.role = q.seen.role
  <2>1. q.seen \in User /\ q.command.reason \in Reasons
    BY <1>1, ServedRequest, CommandShape
  <2> QED BY <2>1, BlockedRow
<1> HIDE DEF after
<1> QED BY <1>1, <1>2, ServedRequest, EventTypes, PlainChangeStep

LEMMA UnblockStep ==
  ASSUME IInv, NEW s \in Sessions, UnblockUser(s)
  PROVE  IInv'
<1> DEFINE q == session[s]
           after == unblock(q.seen)
<1>1. /\ Serving(s, "UnblockUser") /\ UNCHANGED answer
      /\ \/ Commit(s, after, <<>>) \/ Commit(s, after, <<Recorded("UserUnblocked")>>)
  BY DEF UnblockUser, Change
<1>2. after \in User /\ after.role = q.seen.role
  BY <1>1, ServedRequest, UnblockedRow
<1> HIDE DEF after
<1> QED BY <1>1, <1>2, ServedRequest, EventTypes, PlainChangeStep

\* The role handed out is the one recorded, and nothing is recorded when the
\* copy already held it: then the column is not written either.
LEMMA RoleStep ==
  ASSUME IInv, NEW s \in Sessions, ChangeUserRole(s)
  PROVE  IInv'
<1> DEFINE q == session[s]
           u == q.target
           role == q.command.role
           after == assign_role(q.seen, role)
           e == UserRoleChanged(q.seen.role, role)
<1>1. /\ Serving(s, "ChangeUserRole") /\ UNCHANGED answer
      /\ after = q.seen => Commit(s, after, <<>>)
      /\ after # q.seen => Commit(s, after, <<e>>)
  BY DEF ChangeUserRole, Change
<1>2. role \in Role /\ after \in User /\ after.role = role /\ q.seen.role \in Role
  BY <1>1, ServedRequest, CommandShape DEF assign_role, User
<1>3. after # q.seen => role # q.seen.role
  BY <1>1, ServedRequest DEF assign_role, User
<1>4. e \in Event
  BY <1>2, EventTypes
<1>5. u \in DOMAIN users /\ u \in UserIds /\ trail[u] \in Seq(Event)
  BY <1>1, ServedRequest DEF IInv, TypeOK
<1>6. CASE after = q.seen
  <2>1. Recorded("UserRenamed") \in Event /\ Recorded("UserRenamed").type # "UserRoleChanged"
    BY EventTypes
  <2> HIDE DEF after
  <2> QED BY <1>1, <1>2, <1>6, <2>1, ServedRequest, PlainChangeStep
<1>7. CASE after # q.seen
  <2>1. Flush(q.seen, after, users[u]).role = role
    BY <1>1, <1>2, <1>3, <1>7, ServedRequest, FlushKeeps
  <2>2. TellsRole(trail[u] \o <<e>>, role)
    BY <1>2, <1>5, ChangeIsTold
  <2>3. <<e>> \in Seq(Event)
    BY <1>4
  <2> HIDE DEF after, e, role
  <2> QED BY <1>1, <1>2, <1>7, <2>1, <2>2, <2>3, ServedRequest, CommitStep
<1> QED BY <1>6, <1>7

\* What a shared contact is answered with.
LEMMA AnswerType ==
  ASSUME IInv, NEW s \in Sessions, session[s] # None,
         NEW text \in {"welcome", "taken"}, Answered(s, text)
  PROVE  answer' \in [Account -> {None, "welcome", "taken"}]
BY DEF Answered, IInv, TypeOK

\* An account joins a person in the column of its platform and in no other.
LEMMA LinkedRow ==
  ASSUME NEW user \in User, NEW a \in Account
  PROVE  LET new == link_account(user, a)
         IN  /\ new \in User
             /\ new.phone_number = user.phone_number /\ new.full_name = user.full_name
             /\ new.locale = user.locale /\ new.notify_via = user.notify_via
             /\ new.marketing_consent = user.marketing_consent
             /\ new.role = user.role /\ new.status = user.status
             /\ new.block_reason = user.block_reason
             /\ new.accounts = [user.accounts EXCEPT ![a.platform] = a.external_id]
<1> DEFINE accounts == [user.accounts EXCEPT ![a.platform] = a.external_id]
<1>1. accounts \in [Platforms -> ExternalIds \cup {None}]
  BY DEF User, Account
<1>2. link_account(user, a) = [user EXCEPT !.accounts = accounts]
  BY DEF link_account
<1> HIDE DEF accounts
<1>3. LET new == [user EXCEPT !.accounts = accounts]
      IN  /\ new \in User
          /\ new.phone_number = user.phone_number /\ new.full_name = user.full_name
          /\ new.locale = user.locale /\ new.notify_via = user.notify_via
          /\ new.marketing_consent = user.marketing_consent
          /\ new.role = user.role /\ new.status = user.status
          /\ new.block_reason = user.block_reason
          /\ new.accounts = accounts
  BY <1>1 DEF User
<1> QED BY <1>2, <1>3 DEF accounts

LEMMA LinkStep ==
  ASSUME IInv, NEW s \in Sessions, LinkContact(s)
  PROVE  IInv'
<1> DEFINE q == session[s]
           after == link_account(q.seen, q.account)
<1>1. /\ q # None /\ q.target # None
      /\ Commit(s, after, <<Recorded("MessengerAccountLinked")>>)
      /\ Answered(s, "welcome")
  BY DEF LinkContact, Serving
<1>2. q \in Request /\ RequestOK(q)
  BY <1>1 DEF IInv, TypeOK
<1>3. q.account \in Account /\ q.seen \in User
  BY <1>1, <1>2 DEF Request, RequestOK
<1>4. after \in User /\ after.role = q.seen.role
  BY <1>3, LinkedRow
<1>5. answer' \in [Account -> {None, "welcome", "taken"}]
  BY <1>1, AnswerType
<1> HIDE DEF after
<1> QED BY <1>1, <1>4, <1>5, EventTypes, PlainChangeStep

\* The row of a new person, and what is recorded about them.
LEMMA NewRow ==
  ASSUME NEW c \in Commands, c.kind = "RegisterUser", NEW a \in Account
  PROVE  LET new == register(c, a)
             row == IF is_admin(c) THEN assign_role(new, "ADMIN") ELSE new
         IN  /\ row \in User
             /\ row.phone_number = c.phone_number
             /\ row.role = IF is_admin(c) THEN "ADMIN" ELSE "CUSTOMER"
             /\ row.notify_via = a.platform
             /\ row.accounts[a.platform] = a.external_id
<1> DEFINE accounts == [NoAccounts EXCEPT ![a.platform] = a.external_id]
           new == register(c, a)
<1>1. /\ accounts \in [Platforms -> ExternalIds \cup {None}]
      /\ a.platform \in Platforms /\ a.external_id \in ExternalIds
      /\ accounts[a.platform] = a.external_id
  BY DEF NoAccounts, Account
<1>2. c.phone_number \in Phones /\ c.full_name \in Names /\ c.locale \in Locales
  BY CommandShape
<1>3. new.accounts = accounts
  BY DEF register
<1> HIDE DEF accounts
<1>4. /\ new \in User
      /\ new.phone_number = c.phone_number /\ new.role = "CUSTOMER"
      /\ new.notify_via = a.platform /\ new.accounts[a.platform] = a.external_id
  BY <1>1, <1>2, <1>3 DEF register, User, Role, accounts
<1> HIDE DEF new
<1>5. LET row == assign_role(new, "ADMIN")
      IN  /\ row \in User
          /\ row.phone_number = new.phone_number /\ row.role = "ADMIN"
          /\ row.notify_via = new.notify_via /\ row.accounts = new.accounts
  BY <1>4 DEF assign_role, User, Role
<1> QED BY <1>4, <1>5 DEF new

LEMMA RegistrationIsTold ==
  ASSUME NEW c
  PROVE  /\ RegistrationEvents(c) \in Seq(Event)
         /\ TellsRole(<<>> \o RegistrationEvents(c),
                      IF is_admin(c) THEN "ADMIN" ELSE "CUSTOMER")
<1> DEFINE r == Recorded("UserRegistered")
           e == UserRoleChanged("CUSTOMER", "ADMIN")
<1>1. r \in Event /\ e \in Event /\ r.type # "UserRoleChanged"
  BY EventTypes DEF Role
<1>2. e.type = "UserRoleChanged" /\ e.new_role = "ADMIN"
  BY DEF UserRoleChanged
<1> HIDE DEF r, e
<1>3. <<r>> \in Seq(Event) /\ <<r, e>> \in Seq(Event)
  BY <1>1
<1>4. TellsRole(<<>> \o <<r>>, "CUSTOMER")
  BY <1>1 DEF TellsRole
<1>5. TellsRole(<<>> \o <<r, e>>, "ADMIN")
  <2>1. <<>> \o <<r, e>> = <<r, e>>
    OBVIOUS
  <2>2. /\ DOMAIN <<r, e>> = 1..2 /\ 2 \in 1..2 /\ <<r, e>>[2] = e
        /\ \A j \in 1..2 : ~(j > 2)
    OBVIOUS
  <2> QED BY <1>2, <2>1, <2>2 DEF TellsRole
<1> QED BY <1>3, <1>4, <1>5 DEF RegistrationEvents, r, e

LEMMA RegisterStep ==
  ASSUME IInv, NEW s \in Sessions, NEW u \in UserIds, RegisterNew(s, u)
  PROVE  IInv'
<1> DEFINE q == session[s]
           c == q.command
           new == register(c, q.account)
           row == IF is_admin(c) THEN assign_role(new, "ADMIN") ELSE new
           events == RegistrationEvents(c)
<1>1. /\ q # None /\ c.kind = "RegisterUser" /\ u \notin DOMAIN users
      /\ users' = [x \in DOMAIN users \cup {u} |-> IF x = u THEN row ELSE users[x]]
      /\ trail' = [trail EXCEPT ![u] = @ \o events]
      /\ session' = [session EXCEPT ![s] = None]
      /\ Answered(s, "welcome")
      /\ UNCHANGED <<registry, seeding>>
  BY DEF RegisterNew, Serving, Ends, admin
<1>2. q \in Request /\ c \in Commands /\ q.account \in Account
  BY <1>1 DEF IInv, TypeOK, Request
<1>3. row \in User /\ row.role = IF is_admin(c) THEN "ADMIN" ELSE "CUSTOMER"
  BY <1>1, <1>2, NewRow
<1>4. events \in Seq(Event) /\ TellsRole(<<>> \o events, row.role)
  BY <1>3, RegistrationIsTold
<1>5. trail[u] = <<>> /\ trail[u] \o events \in Seq(Event)
  BY <1>1, <1>4 DEF IInv, TypeOK, NoTrailBefore
<1>6. answer' \in [Account -> {None, "welcome", "taken"}]
  BY <1>1, AnswerType
<1> HIDE DEF q, c, new, row, events
<1>7. DOMAIN users' = DOMAIN users \cup {u}
  BY <1>1
<1>8. /\ users' \in [DOMAIN users' -> User] /\ DOMAIN users' \subseteq UserIds
      /\ trail' \in [UserIds -> Seq(Event)]
      /\ session' \in [Sessions -> Request \cup {None}]
  BY <1>1, <1>3, <1>5, <1>7 DEF IInv, TypeOK
<1>9. TypeOK'
  BY <1>1, <1>6, <1>7, <1>8 DEF IInv, TypeOK
<1>10. ASSUME NEW t \in Sessions, session'[t] # None
       PROVE  RequestOK(session[t])'
  <2>1. session'[t] = session[t] /\ RequestOK(session[t])
    BY <1>1, <1>10 DEF IInv, TypeOK
  <2> QED BY <1>7, <2>1 DEF RequestOK
<1>11. NoTrailBefore'
  BY <1>1, <1>7 DEF IInv, TypeOK, NoTrailBefore
<1>12. ASSUME NEW x \in DOMAIN users'
       PROVE  TellsRole(trail'[x], users'[x].role)
  <2>1. CASE x = u
    <3>1. trail'[x] = <<>> \o events /\ users'[x] = row
      BY <1>1, <1>5, <2>1 DEF IInv, TypeOK
    <3> QED BY <1>4, <3>1
  <2>2. CASE x # u
    <3>1. x \in UserIds /\ x \in DOMAIN users /\ trail'[x] = trail[x] /\ users'[x] = users[x]
      BY <1>1, <1>7, <2>2 DEF IInv, TypeOK
    <3> QED BY <3>1 DEF IInv, TrailTellsTheRole
  <2> QED BY <2>1, <2>2
<1> QED BY <1>9, <1>10, <1>11, <1>12 DEF IInv, TrailTellsTheRole, TellsRole

LEMMA SeedReadStep ==
  ASSUME IInv, NEW numbers \in SUBSET AdminPhones, SeedRead(numbers)
  PROVE  IInv'
<1> DEFINE D == {x \in DOMAIN users : users[x].phone_number \in numbers}
<1>1. /\ registry' = numbers /\ seeding' = [u \in D |-> users[u].role]
      /\ UNCHANGED <<users, trail, session, answer>>
  BY DEF SeedRead
<1>2. DOMAIN seeding' = D /\ D \subseteq DOMAIN users
  BY <1>1
<1>3. \A u \in D : users[u].role \in Role
  BY <1>2 DEF IInv, TypeOK, User
<1> HIDE DEF D
<1>4. seeding' \in [DOMAIN seeding' -> Role]
  BY <1>1, <1>2, <1>3
<1>5. TypeOK'
  BY <1>1, <1>2, <1>4 DEF IInv, TypeOK
<1> QED BY <1>1, <1>5 DEF IInv, NoTrailBefore, TrailTellsTheRole, TellsRole, RequestOK

LEMMA SeedCommitStep ==
  ASSUME IInv, SeedCommit
  PROVE  IInv'
<1> DEFINE promoted == {u \in DOMAIN seeding : seeding[u] # "ADMIN"}
<1>1. /\ users' = [u \in DOMAIN users |->
                     IF u \in promoted THEN assign_role(users[u], "ADMIN") ELSE users[u]]
      /\ trail' = [u \in UserIds |->
                     IF u \in promoted THEN trail[u] \o PromotionEvents(u) ELSE trail[u]]
      /\ seeding # None /\ seeding' = None
      /\ UNCHANGED <<session, registry, answer>>
  BY DEF SeedCommit
<1>2. promoted \subseteq DOMAIN users /\ \A u \in promoted : seeding[u] \in Role
  BY <1>1 DEF IInv, TypeOK
<1> HIDE DEF promoted
<1>3. ASSUME NEW u \in promoted
      PROVE  /\ assign_role(users[u], "ADMIN") \in User
             /\ assign_role(users[u], "ADMIN").role = "ADMIN"
             /\ trail[u] \o PromotionEvents(u) \in Seq(Event)
             /\ TellsRole(trail[u] \o PromotionEvents(u), "ADMIN")
  <2>1. users[u] \in User /\ trail[u] \in Seq(Event) /\ seeding[u] \in Role
    BY <1>2 DEF IInv, TypeOK
  <2>2. "ADMIN" \in Role
    BY DEF Role
  <2>3. UserRoleChanged(seeding[u], "ADMIN") \in Event
    BY <2>1, <2>2, EventTypes
  <2>4. trail[u] \o PromotionEvents(u) \in Seq(Event)
    BY <2>1, <2>3 DEF PromotionEvents
  <2>5. TellsRole(trail[u] \o PromotionEvents(u), "ADMIN")
    BY <2>1, <2>2, ChangeIsTold DEF PromotionEvents
  <2> QED BY <2>1, <2>2, <2>4, <2>5 DEF assign_role, User
<1>4. DOMAIN users' = DOMAIN users
  BY <1>1
<1>5. users' \in [DOMAIN users' -> User] /\ trail' \in [UserIds -> Seq(Event)]
  BY <1>1, <1>3, <1>4 DEF IInv, TypeOK
<1>6. TypeOK'
  BY <1>1, <1>4, <1>5 DEF IInv, TypeOK
<1>7. ASSUME NEW t \in Sessions, session'[t] # None
      PROVE  RequestOK(session[t])'
  BY <1>1, <1>4, <1>7 DEF IInv, RequestOK
<1>8. NoTrailBefore'
  BY <1>1, <1>2, <1>4 DEF IInv, NoTrailBefore
<1>9. ASSUME NEW x \in DOMAIN users'
      PROVE  TellsRole(trail'[x], users'[x].role)
  <2>1. x \in UserIds /\ x \in DOMAIN users
    BY <1>4 DEF IInv, TypeOK
  <2>2. CASE x \in promoted
    BY <1>1, <1>3, <2>1, <2>2
  <2>3. CASE x \notin promoted
    BY <1>1, <2>1, <2>3 DEF IInv, TrailTellsTheRole
  <2> QED BY <2>2, <2>3
<1> QED BY <1>6, <1>7, <1>8, <1>9 DEF IInv, TrailTellsTheRole, TellsRole

LEMMA EndingStep ==
  ASSUME IInv, NEW s \in Sessions,
         KnownContact(s) \/ RefuseAsTaken(s) \/ Rollback(s)
  PROVE  IInv'
<1>1. CASE KnownContact(s)
  <2>1. session[s] # None /\ Answered(s, "welcome") /\ Ends(s)
        /\ UNCHANGED <<users, trail, admin>>
    BY <1>1 DEF KnownContact, Serving
  <2> QED BY <2>1, AnswerType, EndQuietly
<1>2. CASE RefuseAsTaken(s)
  <2>1. session[s] # None /\ Answered(s, "taken") /\ Ends(s)
        /\ UNCHANGED <<users, trail, admin>>
    BY <1>2 DEF RefuseAsTaken, Serving
  <2> QED BY <2>1, AnswerType, EndQuietly
<1>3. CASE Rollback(s)
  <2>1. Ends(s) /\ UNCHANGED <<users, trail, admin, answer>>
    BY <1>3 DEF Rollback
  <2> QED BY <2>1, EndQuietly DEF IInv, TypeOK
<1> QED BY <1>1, <1>2, <1>3

LEMMA NextIInv == IInv /\ [Next]_vars => IInv'
<1> SUFFICES ASSUME IInv, [Next]_vars PROVE IInv'
  OBVIOUS
<1>1. CASE UNCHANGED vars
  BY <1>1 DEF vars, admin, IInv, TypeOK, NoTrailBefore, TrailTellsTheRole, TellsRole,
     RequestOK
<1>2. ASSUME NEW s \in Sessions,
             \/ \E a \in Account, c \in Commands :
                  \/ \E u \in DOMAIN users : GateKnown(s, a, c, u)
                  \/ GateStranger(s, a, c)
             \/ \E u \in DOMAIN users : LoadSubject(s, u) \/ LoadTarget(s, u)
             \/ LoadContact(s)
      PROVE  IInv'
  BY <1>2, GateStep, LoadSubjectStep, LoadTargetStep, LoadContactStep
<1>3. ASSUME NEW s \in Sessions,
             \/ KnownContact(s) \/ RefuseAsTaken(s) \/ Rollback(s)
             \/ LinkContact(s)
             \/ \E u \in UserIds : RegisterNew(s, u)
      PROVE  IInv'
  BY <1>3, EndingStep, LinkStep, RegisterStep
<1>4. ASSUME NEW s \in Sessions,
             \/ RenameUser(s) \/ ChangeUserLocale(s)
             \/ ChangeNotificationPreferences(s) \/ UnlinkMessengerAccount(s)
             \/ ChangeUserRole(s) \/ BlockUser(s) \/ UnblockUser(s)
      PROVE  IInv'
  BY <1>4, RenameStep, LocaleStep, PreferencesStep, UnlinkStep, RoleStep, BlockStep,
     UnblockStep
<1>5. CASE \E numbers \in SUBSET AdminPhones : SeedRead(numbers)
  BY <1>5, SeedReadStep
<1>6. CASE SeedCommit
  BY <1>6, SeedCommitStep
<1> QED BY <1>1, <1>2, <1>3, <1>4, <1>5, <1>6 DEF Next

LEMMA Invariance == Spec => []IInv
<1>1. Init => IInv
  BY InitIInv
<1>2. IInv /\ [Next]_vars => IInv'
  BY NextIInv
<1> QED BY <1>1, <1>2, PTL DEF Spec

\* Every row, event and request in flight has its shape, however requests and
\* starts of the bot overlap.
THEOREM TypeCorrect == Spec => []TypeOK
<1>1. IInv => TypeOK
  BY DEF IInv
<1> QED BY <1>1, Invariance, PTL

\* The last change of role recorded about a person is the role of their row,
\* whoever granted it (a manager, an administrator, the registration of a
\* configured number, the start of the bot) and whatever overlapped.
THEOREM TrailIsComplete == Spec => []TrailTellsTheRole
<1>1. IInv => TrailTellsTheRole
  BY DEF IInv
<1> QED BY <1>1, Invariance, PTL
-----------------------------------------------------------------------------
(* What a step writes *)

Columns == {"phone_number", "full_name", "locale", "marketing_consent", "notify_via",
            "status", "block_reason", "accounts"}

\* What u had in a column was written by a request that was asked to.
WrittenAsAsked(u, column) ==
  users'[u][column] # users[u][column] =>
    \E s \in Sessions :
      /\ session[s] # None
      /\ session'[s] = None
      /\ session[s].target = u
      /\ session[s].command.kind \in Writers(column)

\* A method that touched only columns its command may write, committed over a row
\* that may have changed since it was read.
LEMMA CommitWrites ==
  ASSUME IInv, NEW s \in Sessions, session[s] # None, session[s].target # None,
         NEW after \in User, NEW events, Commit(s, after, events),
         \A column \in Columns :
           after[column] # session[s].seen[column] =>
             session[s].command.kind \in Writers(column),
         NEW u \in DOMAIN users, NEW column \in Columns
  PROVE  WrittenAsAsked(u, column)
<1> DEFINE q == session[s]
           row == Flush(q.seen, after, users[q.target])
<1>1. q.target \in DOMAIN users /\ q.seen \in User /\ users[q.target] \in User
  BY DEF IInv, TypeOK, RequestOK
<1>2. users' = [users EXCEPT ![q.target] = row] /\ session'[s] = None
  BY DEF Commit, Ends, IInv, TypeOK
<1>3. CASE u # q.target
  BY <1>2, <1>3 DEF WrittenAsAsked
<1>4. CASE u = q.target
  <2>1. users'[u] = row
    BY <1>1, <1>2, <1>4
  <2>2. row.phone_number = users[u].phone_number
    BY <1>1, <1>4, FlushType
  <2>3. /\ after.full_name = q.seen.full_name => row.full_name = users[u].full_name
        /\ after.locale = q.seen.locale => row.locale = users[u].locale
        /\ after.marketing_consent = q.seen.marketing_consent
             => row.marketing_consent = users[u].marketing_consent
        /\ after.notify_via = q.seen.notify_via => row.notify_via = users[u].notify_via
        /\ after.status = q.seen.status => row.status = users[u].status
        /\ after.block_reason = q.seen.block_reason
             => row.block_reason = users[u].block_reason
        /\ after.accounts = q.seen.accounts => row.accounts = users[u].accounts
    BY <1>1, <1>4, FlushKeeps
  <2> HIDE DEF row
  <2>4. row[column] # users[u][column] => after[column] # q.seen[column]
    BY <2>2, <2>3 DEF Columns
  <2> QED BY <1>2, <1>4, <2>1, <2>4 DEF WrittenAsAsked
<1> QED BY <1>3, <1>4

LEMMA RenameWrites ==
  ASSUME IInv, NEW s \in Sessions, RenameUser(s), NEW u \in DOMAIN users,
         NEW column \in Columns
  PROVE  WrittenAsAsked(u, column)
<1> DEFINE q == session[s]
           after == rename(q.seen, q.command.full_name)
<1>1. /\ Serving(s, "RenameUser")
      /\ \E events : Commit(s, after, events)
  BY DEF RenameUser, Change
<1>2. /\ after \in User
      /\ after.phone_number = q.seen.phone_number /\ after.locale = q.seen.locale
      /\ after.marketing_consent = q.seen.marketing_consent
      /\ after.notify_via = q.seen.notify_via /\ after.status = q.seen.status
      /\ after.block_reason = q.seen.block_reason /\ after.accounts = q.seen.accounts
  BY <1>1, ServedRequest, CommandShape DEF rename, User
<1> HIDE DEF after
<1>3. q.command.kind = "RenameUser" /\ q # None /\ q.target # None
  BY <1>1, ServedRequest
<1>4. \A x \in Columns : after[x] # q.seen[x] => q.command.kind \in Writers(x)
  BY <1>2, <1>3 DEF Columns, Writers
<1> QED BY <1>1, <1>2, <1>3, <1>4, CommitWrites

LEMMA LocaleWrites ==
  ASSUME IInv, NEW s \in Sessions, ChangeUserLocale(s), NEW u \in DOMAIN users,
         NEW column \in Columns
  PROVE  WrittenAsAsked(u, column)
<1> DEFINE q == session[s]
           after == WithLocale(q.seen, q.command.locale)
<1>1. /\ Serving(s, "ChangeUserLocale")
      /\ \E events : Commit(s, after, events)
  BY DEF ChangeUserLocale, Change
<1>2. /\ after \in User
      /\ after.phone_number = q.seen.phone_number /\ after.full_name = q.seen.full_name
      /\ after.marketing_consent = q.seen.marketing_consent
      /\ after.notify_via = q.seen.notify_via /\ after.status = q.seen.status
      /\ after.block_reason = q.seen.block_reason /\ after.accounts = q.seen.accounts
  BY <1>1, ServedRequest, CommandShape DEF WithLocale, User
<1> HIDE DEF after
<1>3. q.command.kind = "ChangeUserLocale" /\ q # None /\ q.target # None
  BY <1>1, ServedRequest
<1>4. \A x \in Columns : after[x] # q.seen[x] => q.command.kind \in Writers(x)
  BY <1>2, <1>3 DEF Columns, Writers
<1> QED BY <1>1, <1>2, <1>3, <1>4, CommitWrites

\* The channel and the consent are written together, and the language stays.
LEMMA NotificationRow ==
  ASSUME NEW user \in User, NEW platform \in Platforms, NEW consent \in BOOLEAN
  PROVE  LET new == WithNotification(user, platform, consent)
         IN  /\ new \in User /\ new.notify_via = platform
             /\ new.phone_number = user.phone_number /\ new.full_name = user.full_name
             /\ new.locale = user.locale /\ new.status = user.status
             /\ new.block_reason = user.block_reason
             /\ new.role = user.role /\ new.accounts = user.accounts
<1> DEFINE mid == [user EXCEPT !.notify_via = platform]
           new == [mid EXCEPT !.marketing_consent = consent]
<1>1. /\ mid \in User /\ mid.notify_via = platform
      /\ mid.phone_number = user.phone_number /\ mid.full_name = user.full_name
      /\ mid.locale = user.locale /\ mid.status = user.status
      /\ mid.block_reason = user.block_reason
      /\ mid.role = user.role /\ mid.accounts = user.accounts
  BY DEF User
<1> HIDE DEF mid
<1>2. /\ new \in User /\ new.notify_via = mid.notify_via
      /\ new.phone_number = mid.phone_number /\ new.full_name = mid.full_name
      /\ new.locale = mid.locale /\ new.status = mid.status
      /\ new.block_reason = mid.block_reason
      /\ new.role = mid.role /\ new.accounts = mid.accounts
  BY <1>1 DEF User
<1>3. new = WithNotification(user, platform, consent)
  BY DEF mid, WithNotification
<1> HIDE DEF new
<1> QED BY <1>1, <1>2, <1>3

LEMMA PreferencesWrite ==
  ASSUME IInv, NEW s \in Sessions, ChangeNotificationPreferences(s),
         NEW u \in DOMAIN users, NEW column \in Columns
  PROVE  WrittenAsAsked(u, column)
<1> DEFINE q == session[s]
           c == q.command
           after == WithNotification(q.seen, c.notify_via, c.marketing_consent)
<1>1. /\ Serving(s, "ChangeNotificationPreferences")
      /\ \E events : Commit(s, after, events)
  BY DEF ChangeNotificationPreferences, Change
<1>2. /\ q.seen \in User /\ c.notify_via \in Platforms /\ c.marketing_consent \in BOOLEAN
  BY <1>1, ServedRequest, CommandShape
<1>3. /\ after \in User
      /\ after.phone_number = q.seen.phone_number /\ after.full_name = q.seen.full_name
      /\ after.locale = q.seen.locale /\ after.status = q.seen.status
      /\ after.block_reason = q.seen.block_reason /\ after.accounts = q.seen.accounts
  BY <1>2, NotificationRow
<1> HIDE DEF after
<1>4. c.kind = "ChangeNotificationPreferences" /\ q # None /\ q.target # None
  BY <1>1, ServedRequest
<1>5. \A x \in Columns : after[x] # q.seen[x] => c.kind \in Writers(x)
  BY <1>3, <1>4 DEF Columns, Writers
<1> QED BY <1>1, <1>3, <1>4, <1>5, CommitWrites

\* An account leaves, and the channel moves only if it pointed there.
LEMMA UnlinkedRow ==
  ASSUME NEW user \in User, NEW platform \in Platforms, NEW next \in Platforms
  PROVE  LET new == unlink_account(user, platform, next)
         IN  /\ new \in User
             /\ new.phone_number = user.phone_number /\ new.full_name = user.full_name
             /\ new.locale = user.locale /\ new.status = user.status
             /\ new.marketing_consent = user.marketing_consent
             /\ new.block_reason = user.block_reason /\ new.role = user.role
<1> DEFINE accounts == [user.accounts EXCEPT ![platform] = None]
           via == IF user.notify_via = platform THEN next ELSE user.notify_via
           mid == [user EXCEPT !.accounts = accounts]
           new == [mid EXCEPT !.notify_via = via]
<1>1. accounts \in [Platforms -> ExternalIds \cup {None}] /\ via \in Platforms
  BY DEF User
<1>2. mid.notify_via = user.notify_via
  BY DEF User
<1>3. new = unlink_account(user, platform, next)
  BY <1>2 DEF unlink_account
<1> HIDE DEF accounts, via
<1>4. /\ mid \in User /\ mid.accounts = accounts
      /\ mid.phone_number = user.phone_number /\ mid.full_name = user.full_name
      /\ mid.locale = user.locale /\ mid.status = user.status
      /\ mid.marketing_consent = user.marketing_consent
      /\ mid.block_reason = user.block_reason /\ mid.role = user.role
  BY <1>1 DEF User
<1> HIDE DEF mid
<1>5. /\ new \in User /\ new.accounts = mid.accounts /\ new.notify_via = via
      /\ new.phone_number = mid.phone_number /\ new.full_name = mid.full_name
      /\ new.locale = mid.locale /\ new.status = mid.status
      /\ new.marketing_consent = mid.marketing_consent
      /\ new.block_reason = mid.block_reason /\ new.role = mid.role
  BY <1>1, <1>4 DEF User
<1> HIDE DEF new
<1> QED BY <1>3, <1>4, <1>5 DEF accounts, via

LEMMA UnlinkedChannel ==
  ASSUME NEW user \in User, NEW platform \in Platforms, NEW next \in Platforms,
         next # platform, user.accounts[next] # None,
         user.accounts[user.notify_via] # None
  PROVE  LET new == unlink_account(user, platform, next)
         IN  new.accounts[new.notify_via] # None
<1> DEFINE accounts == [user.accounts EXCEPT ![platform] = None]
           via == IF user.notify_via = platform THEN next ELSE user.notify_via
           mid == [user EXCEPT !.accounts = accounts]
           new == [mid EXCEPT !.notify_via = via]
<1>1. mid.notify_via = user.notify_via /\ mid.accounts = accounts
  BY DEF User
<1>2. new = unlink_account(user, platform, next)
  BY <1>1 DEF unlink_account
<1>3. via \in Platforms /\ accounts[via] # None
  BY DEF User
<1> HIDE DEF accounts, via
<1>4. new.accounts = accounts /\ new.notify_via = via
  BY DEF User
<1> HIDE DEF new
<1> QED BY <1>2, <1>3, <1>4

LEMMA UnlinkWrites ==
  ASSUME IInv, NEW s \in Sessions, UnlinkMessengerAccount(s),
         NEW u \in DOMAIN users, NEW column \in Columns
  PROVE  WrittenAsAsked(u, column)
<1> DEFINE q == session[s]
           c == q.command
<1>1. PICK next \in Linked(q.seen) :
        /\ Serving(s, "UnlinkMessengerAccount")
        /\ \E events : Commit(s, unlink_account(q.seen, c.platform, next), events)
  BY DEF UnlinkMessengerAccount, Change
<1> DEFINE after == unlink_account(q.seen, c.platform, next)
<1>2. q.seen \in User /\ c.platform \in Platforms /\ next \in Platforms
  BY <1>1, ServedRequest, CommandShape DEF Linked
<1>3. /\ after \in User
      /\ after.phone_number = q.seen.phone_number /\ after.full_name = q.seen.full_name
      /\ after.locale = q.seen.locale /\ after.status = q.seen.status
      /\ after.marketing_consent = q.seen.marketing_consent
      /\ after.block_reason = q.seen.block_reason
  BY <1>2, UnlinkedRow
<1> HIDE DEF after
<1>4. c.kind = "UnlinkMessengerAccount" /\ q # None /\ q.target # None
  BY <1>1, ServedRequest
<1>5. \A x \in Columns : after[x] # q.seen[x] => c.kind \in Writers(x)
  BY <1>3, <1>4 DEF Columns, Writers
<1>6. \E events : Commit(s, after, events)
  BY <1>1 DEF after
<1> QED BY <1>3, <1>4, <1>5, <1>6, CommitWrites

\* A change of role writes no other column.
LEMMA RoleWrites ==
  ASSUME IInv, NEW s \in Sessions, ChangeUserRole(s), NEW u \in DOMAIN users,
         NEW column \in Columns
  PROVE  WrittenAsAsked(u, column)
<1> DEFINE q == session[s]
           after == assign_role(q.seen, q.command.role)
<1>1. /\ Serving(s, "ChangeUserRole")
      /\ \E events : Commit(s, after, events)
  BY DEF ChangeUserRole, Change
<1>2. /\ after \in User
      /\ after.phone_number = q.seen.phone_number /\ after.full_name = q.seen.full_name
      /\ after.marketing_consent = q.seen.marketing_consent
      /\ after.locale = q.seen.locale
      /\ after.notify_via = q.seen.notify_via /\ after.status = q.seen.status
      /\ after.block_reason = q.seen.block_reason /\ after.accounts = q.seen.accounts
  BY <1>1, ServedRequest, CommandShape DEF assign_role, User
<1> HIDE DEF after
<1>3. q # None /\ q.target # None
  BY <1>1, ServedRequest
<1>4. \A x \in Columns : after[x] = q.seen[x]
  BY <1>2 DEF Columns
<1> QED BY <1>1, <1>2, <1>3, <1>4, CommitWrites

LEMMA BlockWrites ==
  ASSUME IInv, NEW s \in Sessions, BlockUser(s), NEW u \in DOMAIN users,
         NEW column \in Columns
  PROVE  WrittenAsAsked(u, column)
<1> DEFINE q == session[s]
           after == block(q.seen, q.command.reason)
<1>1. /\ Serving(s, "BlockUser")
      /\ \E events : Commit(s, after, events)
  BY DEF BlockUser, Change
<1>2. q.seen \in User /\ q.command.reason \in Reasons
  BY <1>1, ServedRequest, CommandShape
<1>3. /\ after \in User
      /\ after.phone_number = q.seen.phone_number /\ after.full_name = q.seen.full_name
      /\ after.locale = q.seen.locale /\ after.notify_via = q.seen.notify_via
      /\ after.marketing_consent = q.seen.marketing_consent
      /\ after.accounts = q.seen.accounts
  BY <1>2, BlockedRow
<1> HIDE DEF after
<1>4. q.command.kind = "BlockUser" /\ q # None /\ q.target # None
  BY <1>1, ServedRequest
<1>5. \A x \in Columns : after[x] # q.seen[x] => q.command.kind \in Writers(x)
  BY <1>3, <1>4 DEF Columns, Writers
<1> QED BY <1>1, <1>3, <1>4, <1>5, CommitWrites

LEMMA UnblockWrites ==
  ASSUME IInv, NEW s \in Sessions, UnblockUser(s), NEW u \in DOMAIN users,
         NEW column \in Columns
  PROVE  WrittenAsAsked(u, column)
<1> DEFINE q == session[s]
           after == unblock(q.seen)
<1>1. /\ Serving(s, "UnblockUser")
      /\ \E events : Commit(s, after, events)
  BY DEF UnblockUser, Change
<1>2. q.seen \in User
  BY <1>1, ServedRequest
<1>3. /\ after \in User
      /\ after.phone_number = q.seen.phone_number /\ after.full_name = q.seen.full_name
      /\ after.locale = q.seen.locale /\ after.notify_via = q.seen.notify_via
      /\ after.marketing_consent = q.seen.marketing_consent
      /\ after.accounts = q.seen.accounts
  BY <1>2, UnblockedRow
<1> HIDE DEF after
<1>4. q.command.kind = "UnblockUser" /\ q # None /\ q.target # None
  BY <1>1, ServedRequest
<1>5. \A x \in Columns : after[x] # q.seen[x] => q.command.kind \in Writers(x)
  BY <1>3, <1>4 DEF Columns, Writers
<1> QED BY <1>1, <1>3, <1>4, <1>5, CommitWrites

LEMMA LinkWrites ==
  ASSUME IInv, NEW s \in Sessions, LinkContact(s), NEW u \in DOMAIN users,
         NEW column \in Columns
  PROVE  WrittenAsAsked(u, column)
<1> DEFINE q == session[s]
           after == link_account(q.seen, q.account)
<1>1. /\ q # None /\ q.target # None /\ q.command.kind = "RegisterUser"
      /\ \E events : Commit(s, after, events)
  BY DEF LinkContact, Serving
<1>2. q \in Request /\ RequestOK(q)
  BY <1>1 DEF IInv, TypeOK
<1>3. q.account \in Account /\ q.seen \in User
  BY <1>1, <1>2 DEF Request, RequestOK
<1>4. /\ after \in User
      /\ after.phone_number = q.seen.phone_number /\ after.full_name = q.seen.full_name
      /\ after.locale = q.seen.locale /\ after.notify_via = q.seen.notify_via
      /\ after.marketing_consent = q.seen.marketing_consent
      /\ after.status = q.seen.status /\ after.block_reason = q.seen.block_reason
  BY <1>3, LinkedRow
<1> HIDE DEF after
<1>5. \A x \in Columns : after[x] # q.seen[x] => q.command.kind \in Writers(x)
  BY <1>1, <1>4 DEF Columns, Writers
<1> QED BY <1>1, <1>4, <1>5, CommitWrites

\* A start of the bot writes roles and nothing else.
LEMMA SeedWrites ==
  ASSUME IInv, SeedCommit, NEW u \in DOMAIN users, NEW column \in Columns
  PROVE  WrittenAsAsked(u, column)
<1>1. users'[u] = users[u] \/ users'[u] = assign_role(users[u], "ADMIN")
  BY DEF SeedCommit
<1>2. users[u] \in User
  BY DEF IInv, TypeOK
<1> DEFINE new == assign_role(users[u], "ADMIN")
<1>3. /\ new.phone_number = users[u].phone_number /\ new.full_name = users[u].full_name
      /\ new.marketing_consent = users[u].marketing_consent
      /\ new.locale = users[u].locale
      /\ new.notify_via = users[u].notify_via /\ new.status = users[u].status
      /\ new.block_reason = users[u].block_reason /\ new.accounts = users[u].accounts
  BY <1>2 DEF assign_role, User
<1> HIDE DEF new
<1>4. new[column] = users[u][column]
  BY <1>3 DEF Columns
<1>5. users'[u][column] = users[u][column]
  BY <1>1, <1>4 DEF new
<1> QED BY <1>5 DEF WrittenAsAsked

\* A request leaves alone what it was not asked to change, although it commits a
\* copy that may be older than the row.
THEOREM WritesWhatWasAsked == Spec => OnlyWhatWasAsked
<1>1. ASSUME IInv, [Next]_vars, NEW u \in DOMAIN users, NEW column \in Columns
      PROVE  WrittenAsAsked(u, column)
  <2>1. CASE users' = users
    BY <2>1 DEF WrittenAsAsked
  <2>2. ASSUME NEW s \in Sessions,
               \/ RenameUser(s) \/ ChangeUserLocale(s)
               \/ ChangeNotificationPreferences(s) \/ UnlinkMessengerAccount(s)
               \/ ChangeUserRole(s) \/ BlockUser(s) \/ UnblockUser(s)
               \/ LinkContact(s)
        PROVE  WrittenAsAsked(u, column)
    BY <1>1, <2>2, RenameWrites, LocaleWrites, PreferencesWrite, UnlinkWrites,
       RoleWrites, BlockWrites, UnblockWrites, LinkWrites
  <2>3. ASSUME NEW s \in Sessions, NEW x \in UserIds, RegisterNew(s, x)
        PROVE  WrittenAsAsked(u, column)
    <3>1. users'[u] = users[u]
      BY <1>1, <2>3 DEF RegisterNew
    <3> QED BY <3>1 DEF WrittenAsAsked
  <2>4. CASE SeedCommit
    BY <1>1, <2>4, SeedWrites
  <2>5. ASSUME NEW s \in Sessions,
               \/ \E a \in Account, c \in Commands :
                    \/ \E x \in DOMAIN users : GateKnown(s, a, c, x)
                    \/ GateStranger(s, a, c)
               \/ \E x \in DOMAIN users : LoadSubject(s, x) \/ LoadTarget(s, x)
               \/ LoadContact(s) \/ KnownContact(s) \/ RefuseAsTaken(s) \/ Rollback(s)
        PROVE  users' = users
    BY <2>5 DEF GateKnown, GateStranger, LoadSubject, LoadTarget, LoadContact, KnownContact,
       RefuseAsTaken, Rollback
  <2>6. CASE \E numbers \in SUBSET AdminPhones : SeedRead(numbers)
    BY <2>1, <2>6 DEF SeedRead
  <2>7. CASE UNCHANGED vars
    BY <2>1, <2>7 DEF vars
  <2> QED BY <1>1, <2>1, <2>2, <2>3, <2>4, <2>5, <2>6, <2>7 DEF Next
<1> DEFINE A == \A u \in DOMAIN users :
                  \A column \in {"phone_number", "full_name", "locale",
                                 "marketing_consent", "notify_via", "status",
                                 "block_reason", "accounts"} :
                    users'[u][column] # users[u][column] =>
                      \E s \in Sessions :
                        /\ session[s] # None
                        /\ session'[s] = None
                        /\ session[s].target = u
                        /\ session[s].command.kind \in Writers(column)
<1>2. IInv /\ [Next]_vars => [A]_vars
  BY <1>1 DEF WrittenAsAsked, Columns
<1>3. OnlyWhatWasAsked <=> [][A]_vars
  BY DEF OnlyWhatWasAsked
<1> HIDE DEF A
<1> QED BY <1>2, <1>3, Invariance, PTL DEF Spec
-----------------------------------------------------------------------------
(* Requests that do not overlap *)

\* A request that writes nothing and knows what it should.
LEMMA QuietInSequence ==
  ASSUME IInv, InSequence, OneAtATime', NEW s \in Sessions, NEW q,
         q # None => Fresh(q),
         session' = [session EXCEPT ![s] = q],
         UNCHANGED <<users, trail, admin>>,
         NeverTurnedAway'
  PROVE  InSequence'
<1>1. ASSUME NEW t \in Sessions, session'[t] # None
      PROVE  Fresh(session[t])'
  <2>1. session'[t] = session[t] \/ session'[t] = q
    BY DEF IInv, TypeOK
  <2>2. Fresh(session'[t])
    BY <1>1, <2>1 DEF InSequence, IInv, TypeOK
  <2> QED BY <2>2 DEF Fresh, Finds, Owns, AccountFree
<1> QED BY <1>1 DEF InSequence, NoGap, NotifyViaIsLinked, admin

LEMMA GatesInSequence ==
  ASSUME IInv, InSequence, OneAtATime', NEW s \in Sessions, NEW a \in Account,
         NEW c \in Commands,
         (\E u \in DOMAIN users : GateKnown(s, a, c, u)) \/ GateStranger(s, a, c)
  PROVE  InSequence'
<1> DEFINE q == [account |-> a, command |-> c, stage |-> "gated", subject |-> None,
                 me |-> None, target |-> None, seen |-> None]
<1>1. session' = [session EXCEPT ![s] = q] /\ UNCHANGED <<users, trail, admin, answer>>
  BY DEF GateKnown, GateStranger, Opens
<1>2. Fresh(q)
  BY DEF Fresh
<1> HIDE DEF q
<1>3. NeverTurnedAway'
  BY <1>1 DEF NeverTurnedAway, InSequence
<1> QED BY <1>1, <1>2, <1>3, QuietInSequence

LEMMA LoadSubjectInSequence ==
  ASSUME IInv, InSequence, OneAtATime', NEW s \in Sessions, NEW u \in DOMAIN users,
         LoadSubject(s, u)
  PROVE  InSequence'
<1> DEFINE q == session[s]
           r == [q EXCEPT !.stage = "known", !.subject = u, !.me = users[u]]
<1>1. q # None /\ q \in Request /\ Fresh(q)
  BY DEF LoadSubject, IInv, TypeOK, InSequence
<1>2. session' = [session EXCEPT ![s] = r] /\ UNCHANGED <<users, trail, admin, answer>>
  BY DEF LoadSubject
<1>3. /\ r.stage = "known" /\ r.subject = u /\ r.me = users[u]
      /\ r.target = q.target /\ r.seen = q.seen
  BY <1>1 DEF Request
<1> HIDE DEF r
<1>4. Fresh(r)
  BY <1>1, <1>3 DEF Fresh
<1>5. NeverTurnedAway'
  BY <1>2 DEF NeverTurnedAway, InSequence
<1> QED BY <1>2, <1>4, <1>5, QuietInSequence

LEMMA LoadTargetInSequence ==
  ASSUME IInv, InSequence, OneAtATime', NEW s \in Sessions, NEW u \in DOMAIN users,
         LoadTarget(s, u)
  PROVE  InSequence'
<1> DEFINE q == session[s]
           row == IF u = q.subject THEN q.me ELSE users[u]
           r == [q EXCEPT !.stage = "loaded", !.target = u, !.seen = row]
<1>1. u # None
  BY UserAssumption DEF IInv, TypeOK
<1>2. q # None /\ q \in Request /\ Fresh(q)
  BY DEF LoadTarget, IInv, TypeOK, InSequence
<1>3. row = users[u]
  BY <1>1, <1>2 DEF Fresh
<1>4. session' = [session EXCEPT ![s] = r] /\ UNCHANGED <<users, trail, admin, answer>>
  BY DEF LoadTarget
<1> HIDE DEF row
<1>5. r.target = u /\ r.seen = row /\ r.subject = q.subject /\ r.me = q.me
  BY <1>2 DEF Request
<1> HIDE DEF r
<1>6. Fresh(r)
  BY <1>1, <1>2, <1>3, <1>5 DEF Fresh
<1>7. NeverTurnedAway'
  BY <1>4 DEF NeverTurnedAway, InSequence
<1> QED BY <1>4, <1>6, <1>7, QuietInSequence

LEMMA LoadContactInSequence ==
  ASSUME IInv, InSequence, OneAtATime', NEW s \in Sessions, LoadContact(s)
  PROVE  InSequence'
<1> DEFINE q == session[s]
<1>1. q # None /\ q \in Request /\ Fresh(q) /\ UNCHANGED <<users, trail, admin, answer>>
  BY DEF LoadContact, IInv, TypeOK, InSequence
<1>2. PICK u, row :
        /\ session' = [session EXCEPT ![s] =
             [q EXCEPT !.stage = "loaded", !.target = u, !.seen = row]]
        /\ u # None => row = users[u]
        /\ u = None => \A x \in DOMAIN users : ~Finds(q, x)
  <2>1. CASE \E u \in DOMAIN users :
               session' = [session EXCEPT ![s] =
                 [q EXCEPT !.stage = "loaded", !.target = u, !.seen = users[u]]]
    <3>1. PICK u \in DOMAIN users :
               session' = [session EXCEPT ![s] =
                 [q EXCEPT !.stage = "loaded", !.target = u, !.seen = users[u]]]
      BY <2>1
    <3>2. u # None
      BY UserAssumption DEF IInv, TypeOK
    <3> QED BY <3>1, <3>2
  <2>2. CASE /\ \A x \in DOMAIN users : ~Finds(q, x)
             /\ session' = [session EXCEPT ![s] =
                  [q EXCEPT !.stage = "loaded", !.target = None, !.seen = None]]
    BY <2>2
  <2> QED BY <2>1, <2>2 DEF LoadContact
<1> DEFINE r == [q EXCEPT !.stage = "loaded", !.target = u, !.seen = row]
<1>3. /\ r.target = u /\ r.seen = row /\ r.subject = q.subject /\ r.me = q.me
      /\ r.account = q.account /\ r.command = q.command
  BY <1>1 DEF Request
<1>4. session' = [session EXCEPT ![s] = r]
  BY <1>2
<1> HIDE DEF r
<1>5. \A x : Finds(r, x) <=> Finds(q, x)
  BY <1>3 DEF Finds
<1>6. Fresh(r)
  BY <1>1, <1>2, <1>3, <1>5 DEF Fresh
<1>7. NeverTurnedAway'
  BY <1>1 DEF NeverTurnedAway, InSequence
<1> QED BY <1>1, <1>4, <1>6, <1>7, QuietInSequence

\* Welcomed or rolled back.  Nobody is turned away: the number and the account
\* were looked for, and nothing has changed since.
LEMMA EndingsInSequence ==
  ASSUME IInv, InSequence, OneAtATime', NEW s \in Sessions,
         KnownContact(s) \/ RefuseAsTaken(s) \/ Rollback(s)
  PROVE  InSequence'
<1>1. CASE KnownContact(s)
  <2>1. /\ session' = [session EXCEPT ![s] = None] /\ UNCHANGED <<users, trail, admin>>
        /\ Answered(s, "welcome")
    BY <1>1 DEF KnownContact, Ends
  <2>2. NeverTurnedAway'
    BY <2>1 DEF NeverTurnedAway, InSequence, Answered, IInv, TypeOK
  <2> QED BY <2>1, <2>2, QuietInSequence
<1>2. CASE Rollback(s)
  <2>1. /\ session' = [session EXCEPT ![s] = None]
        /\ UNCHANGED <<users, trail, admin, answer>>
    BY <1>2 DEF Rollback, Ends
  <2>2. NeverTurnedAway'
    BY <2>1 DEF NeverTurnedAway, InSequence
  <2> QED BY <2>1, <2>2, QuietInSequence
<1>3. CASE RefuseAsTaken(s)
  <2>1. \A u \in DOMAIN users : ~Finds(session[s], u)
    BY <1>3 DEF RefuseAsTaken, Serving, InSequence, Fresh
  <2>2. AccountFree(session[s].account)
    BY <2>1 DEF Finds, AccountFree
  <2>3. Insertable(session[s].command, session[s].account)
    BY <2>1, <2>2 DEF Finds, Insertable
  <2> QED BY <1>3, <2>3 DEF RefuseAsTaken
<1> QED BY <1>1, <1>2, <1>3

\* Nothing else is under way while a request is.
LEMMA NothingElse ==
  ASSUME IInv, InSequence, NEW s \in Sessions, session[s] # None, Ends(s)
  PROVE  /\ seeding = None
         /\ \A t \in Sessions : session'[t] = None
BY DEF InSequence, OneAtATime, Ends, IInv, TypeOK

\* What is committed is the row as the method left it.
LEMMA CommitInSequence ==
  ASSUME IInv, InSequence, OneAtATime', NEW s \in Sessions,
         session[s] # None, session[s].target # None,
         NEW after \in User, NEW events, Commit(s, after, events),
         after.phone_number = session[s].seen.phone_number,
         session[s].seen.role = "ADMIN" => after.role = "ADMIN",
         after.accounts[after.notify_via] # None,
         NeverTurnedAway'
  PROVE  InSequence'
<1> DEFINE q == session[s]
           u == q.target
<1>1. u \in DOMAIN users /\ q.seen \in User /\ q.seen = users[u]
  BY DEF IInv, TypeOK, RequestOK, InSequence, Fresh
<1>2. Flush(q.seen, after, users[u]) = after
  BY <1>1, FlushFresh
<1>3. /\ users' = [users EXCEPT ![u] = after] /\ Ends(s) /\ UNCHANGED <<registry, seeding>>
  BY <1>2 DEF Commit, admin
<1> HIDE DEF u
<1>4. seeding = None /\ \A t \in Sessions : session'[t] = None
  BY <1>3, NothingElse
<1>5. DOMAIN users' = DOMAIN users /\ users'[u] = after
      /\ \A x \in DOMAIN users : x # u => users'[x] = users[x]
  BY <1>1, <1>3
<1>6. NoGap'
  BY <1>1, <1>3, <1>4, <1>5 DEF InSequence, NoGap
<1>7. NotifyViaIsLinked'
  BY <1>5 DEF InSequence, NotifyViaIsLinked
<1> QED BY <1>3, <1>4, <1>6, <1>7 DEF InSequence

LEMMA ServedInSequence ==
  ASSUME IInv, InSequence, NEW s \in Sessions, NEW kind, kind # "RegisterUser",
         Serving(s, kind)
  PROVE  LET q == session[s]
         IN  /\ q # None /\ q.target # None /\ q.seen \in User
             /\ q.seen.accounts[q.seen.notify_via] # None
<1>1. /\ session[s] # None /\ session[s].target # None
      /\ session[s].target \in DOMAIN users /\ session[s].seen \in User
  BY ServedRequest
<1>2. session[s].seen = users[session[s].target]
  BY <1>1 DEF InSequence, Fresh
<1> QED BY <1>1, <1>2 DEF InSequence, NotifyViaIsLinked

LEMMA RenameInSequence ==
  ASSUME IInv, InSequence, OneAtATime', NEW s \in Sessions, RenameUser(s)
  PROVE  InSequence'
<1> DEFINE q == session[s]
           after == rename(q.seen, q.command.full_name)
<1>1. /\ Serving(s, "RenameUser") /\ NeverTurnedAway'
      /\ \E events : Commit(s, after, events)
  BY DEF RenameUser, Change, InSequence, NeverTurnedAway
<1>2. /\ q # None /\ q.target # None /\ q.seen \in User
      /\ q.seen.accounts[q.seen.notify_via] # None
  BY <1>1, ServedInSequence
<1>3. /\ after \in User /\ after.phone_number = q.seen.phone_number
      /\ after.role = q.seen.role
      /\ after.notify_via = q.seen.notify_via /\ after.accounts = q.seen.accounts
  BY <1>1, <1>2, ServedRequest, CommandShape DEF rename, User
<1> HIDE DEF after
<1> QED BY <1>1, <1>2, <1>3, CommitInSequence

LEMMA LocaleInSequence ==
  ASSUME IInv, InSequence, OneAtATime', NEW s \in Sessions, ChangeUserLocale(s)
  PROVE  InSequence'
<1> DEFINE q == session[s]
           after == WithLocale(q.seen, q.command.locale)
<1>1. /\ Serving(s, "ChangeUserLocale") /\ NeverTurnedAway'
      /\ \E events : Commit(s, after, events)
  BY DEF ChangeUserLocale, Change, InSequence, NeverTurnedAway
<1>2. /\ q # None /\ q.target # None /\ q.seen \in User
      /\ q.seen.accounts[q.seen.notify_via] # None
  BY <1>1, ServedInSequence
<1>3. /\ after \in User /\ after.phone_number = q.seen.phone_number
      /\ after.role = q.seen.role
      /\ after.notify_via = q.seen.notify_via /\ after.accounts = q.seen.accounts
  BY <1>1, <1>2, ServedRequest, CommandShape DEF WithLocale, User
<1> HIDE DEF after
<1> QED BY <1>1, <1>2, <1>3, CommitInSequence

LEMMA BlockInSequence ==
  ASSUME IInv, InSequence, OneAtATime', NEW s \in Sessions, BlockUser(s)
  PROVE  InSequence'
<1> DEFINE q == session[s]
           after == block(q.seen, q.command.reason)
<1>1. /\ Serving(s, "BlockUser") /\ NeverTurnedAway'
      /\ \E events : Commit(s, after, events)
  BY DEF BlockUser, Change, InSequence, NeverTurnedAway
<1>2. /\ q # None /\ q.target # None /\ q.seen \in User
      /\ q.seen.accounts[q.seen.notify_via] # None
  BY <1>1, ServedInSequence
<1>3. /\ after \in User /\ after.phone_number = q.seen.phone_number
      /\ after.role = q.seen.role
      /\ after.notify_via = q.seen.notify_via /\ after.accounts = q.seen.accounts
  <2>1. q.command.reason \in Reasons
    BY <1>1, ServedRequest, CommandShape
  <2> QED BY <1>2, <2>1, BlockedRow
<1> HIDE DEF after
<1> QED BY <1>1, <1>2, <1>3, CommitInSequence

LEMMA UnblockInSequence ==
  ASSUME IInv, InSequence, OneAtATime', NEW s \in Sessions, UnblockUser(s)
  PROVE  InSequence'
<1> DEFINE q == session[s]
           after == unblock(q.seen)
<1>1. /\ Serving(s, "UnblockUser") /\ NeverTurnedAway'
      /\ \E events : Commit(s, after, events)
  BY DEF UnblockUser, Change, InSequence, NeverTurnedAway
<1>2. /\ q # None /\ q.target # None /\ q.seen \in User
      /\ q.seen.accounts[q.seen.notify_via] # None
  BY <1>1, ServedInSequence
<1>3. /\ after \in User /\ after.phone_number = q.seen.phone_number
      /\ after.role = q.seen.role
      /\ after.notify_via = q.seen.notify_via /\ after.accounts = q.seen.accounts
  BY <1>2, UnblockedRow
<1> HIDE DEF after
<1> QED BY <1>1, <1>2, <1>3, CommitInSequence

LEMMA PreferencesInSequence ==
  ASSUME IInv, InSequence, OneAtATime', NEW s \in Sessions,
         ChangeNotificationPreferences(s)
  PROVE  InSequence'
<1> DEFINE q == session[s]
           c == q.command
           after == WithNotification(q.seen, c.notify_via, c.marketing_consent)
<1>1. /\ Serving(s, "ChangeNotificationPreferences") /\ NeverTurnedAway'
      /\ q.seen.accounts[c.notify_via] # None
      /\ \E events : Commit(s, after, events)
  BY DEF ChangeNotificationPreferences, Change, CanPrefer, InSequence, NeverTurnedAway
<1>2. /\ q # None /\ q.target # None /\ q.seen \in User
      /\ c.notify_via \in Platforms /\ c.marketing_consent \in BOOLEAN
  BY <1>1, ServedRequest, CommandShape
<1>3. /\ after \in User /\ after.phone_number = q.seen.phone_number
      /\ after.role = q.seen.role
      /\ after.notify_via = c.notify_via /\ after.accounts = q.seen.accounts
  BY <1>2, NotificationRow
<1> HIDE DEF after
<1> QED BY <1>1, <1>2, <1>3, CommitInSequence

LEMMA UnlinkInSequence ==
  ASSUME IInv, InSequence, OneAtATime', NEW s \in Sessions, UnlinkMessengerAccount(s)
  PROVE  InSequence'
<1> DEFINE q == session[s]
           c == q.command
<1>1. PICK next \in Linked(q.seen) \ {c.platform} :
        /\ Serving(s, "UnlinkMessengerAccount") /\ NeverTurnedAway'
        /\ \E events : Commit(s, unlink_account(q.seen, c.platform, next), events)
  BY DEF UnlinkMessengerAccount, Change, InSequence, NeverTurnedAway
<1> DEFINE after == unlink_account(q.seen, c.platform, next)
<1>2. /\ q # None /\ q.target # None /\ q.seen \in User
      /\ q.seen.accounts[q.seen.notify_via] # None
  BY <1>1, ServedInSequence
<1>3. /\ c.platform \in Platforms
      /\ next \in Platforms /\ next # c.platform /\ q.seen.accounts[next] # None
  BY <1>1, ServedRequest, CommandShape DEF Linked
<1>4. /\ after \in User /\ after.phone_number = q.seen.phone_number
      /\ after.role = q.seen.role
  BY <1>2, <1>3, UnlinkedRow
<1>5. after.accounts[after.notify_via] # None
  BY <1>2, <1>3, UnlinkedChannel
<1>6. \E events : Commit(s, after, events)
  BY <1>1
<1> HIDE DEF after
<1> QED BY <1>1, <1>2, <1>4, <1>5, <1>6, CommitInSequence

\* Nobody stands above an administrator, so no command takes that role away.
LEMMA RoleInSequence ==
  ASSUME IInv, InSequence, OneAtATime', NEW s \in Sessions, ChangeUserRole(s)
  PROVE  InSequence'
<1> DEFINE q == session[s]
           after == assign_role(q.seen, q.command.role)
<1>1. /\ Serving(s, "ChangeUserRole") /\ NeverTurnedAway'
      /\ q.seen.role \in SUBORDINATE_ROLES(q.me.role)
      /\ \E events : Commit(s, after, events)
  BY DEF ChangeUserRole, Change, MayChangeRole, CanManageSubordinate, InSequence,
     NeverTurnedAway
<1>2. /\ q # None /\ q.target # None /\ q.seen \in User
      /\ q.seen.accounts[q.seen.notify_via] # None
  BY <1>1, ServedInSequence
<1>3. q.me.role \in Role
  BY <1>1, ServedRequest DEF User
<1>4. q.seen.role # "ADMIN"
  BY <1>1, <1>3 DEF SUBORDINATE_ROLES, Role
<1>5. /\ after \in User /\ after.phone_number = q.seen.phone_number
      /\ after.notify_via = q.seen.notify_via /\ after.accounts = q.seen.accounts
  BY <1>1, <1>2, ServedRequest, CommandShape DEF assign_role, User
<1> HIDE DEF after
<1> QED BY <1>1, <1>2, <1>4, <1>5, CommitInSequence

LEMMA LinkInSequence ==
  ASSUME IInv, InSequence, OneAtATime', NEW s \in Sessions, LinkContact(s)
  PROVE  InSequence'
<1> DEFINE q == session[s]
           after == link_account(q.seen, q.account)
<1>1. /\ q # None /\ q.target # None /\ Answered(s, "welcome")
      /\ \E events : Commit(s, after, events)
  BY DEF LinkContact, Serving
<1>2. NeverTurnedAway'
  BY <1>1 DEF NeverTurnedAway, InSequence, Answered, IInv, TypeOK
<1>3. q \in Request /\ RequestOK(q) /\ Fresh(q)
  BY <1>1 DEF IInv, TypeOK, InSequence
<1>4. q.account \in Account /\ q.seen \in User /\ q.seen = users[q.target]
      /\ q.target \in DOMAIN users
  BY <1>1, <1>3 DEF Request, RequestOK, Fresh
<1>5. q.seen.accounts[q.seen.notify_via] # None
  BY <1>4 DEF InSequence, NotifyViaIsLinked
<1>6. /\ after \in User /\ after.phone_number = q.seen.phone_number
      /\ after.role = q.seen.role /\ after.notify_via = q.seen.notify_via
      /\ after.accounts = [q.seen.accounts EXCEPT ![q.account.platform] = q.account.external_id]
  BY <1>4, LinkedRow
<1>7. q.account.external_id # None
  BY <1>4, UserAssumption DEF Account
<1>8. after.accounts[after.notify_via] # None
  BY <1>4, <1>5, <1>6, <1>7 DEF User, Account
<1> HIDE DEF after
<1> QED BY <1>1, <1>2, <1>6, <1>8, CommitInSequence

\* Whoever registers with a configured number is an administrator at once.
LEMMA RegisterInSequence ==
  ASSUME IInv, InSequence, OneAtATime', NEW s \in Sessions, NEW u \in UserIds,
         RegisterNew(s, u)
  PROVE  InSequence'
<1> DEFINE q == session[s]
           c == q.command
           new == register(c, q.account)
           row == IF is_admin(c) THEN assign_role(new, "ADMIN") ELSE new
<1>1. /\ q # None /\ c.kind = "RegisterUser" /\ u \notin DOMAIN users
      /\ users' = [x \in DOMAIN users \cup {u} |-> IF x = u THEN row ELSE users[x]]
      /\ Ends(s) /\ Answered(s, "welcome") /\ UNCHANGED <<registry, seeding>>
  BY DEF RegisterNew, Serving, admin
<1>2. NeverTurnedAway'
  BY <1>1 DEF NeverTurnedAway, InSequence, Answered, IInv, TypeOK
<1>3. c \in Commands /\ q.account \in Account
  BY <1>1 DEF IInv, TypeOK, Request
<1>4. /\ row.phone_number = c.phone_number
      /\ row.role = IF is_admin(c) THEN "ADMIN" ELSE "CUSTOMER"
      /\ row.notify_via = q.account.platform
      /\ row.accounts[q.account.platform] = q.account.external_id
  BY <1>1, <1>3, NewRow
<1>5. q.account.external_id # None
  BY <1>3, UserAssumption DEF Account
<1> HIDE DEF row
<1>6. seeding = None /\ \A t \in Sessions : session'[t] = None
  BY <1>1, NothingElse
<1>7. NoGap'
  BY <1>1, <1>4, <1>6 DEF InSequence, NoGap, is_admin
<1>8. NotifyViaIsLinked'
  BY <1>1, <1>4, <1>5 DEF InSequence, NotifyViaIsLinked
<1> QED BY <1>1, <1>2, <1>6, <1>7, <1>8 DEF InSequence

LEMMA SeedReadInSequence ==
  ASSUME IInv, InSequence, OneAtATime', NEW numbers \in SUBSET AdminPhones,
         SeedRead(numbers)
  PROVE  InSequence'
<1> DEFINE D == {x \in DOMAIN users : users[x].phone_number \in numbers}
<1>1. /\ registry' = numbers /\ seeding' = [u \in D |-> users[u].role]
      /\ UNCHANGED <<users, trail, session, answer>>
  BY DEF SeedRead
<1>2. D \in SUBSET UserIds /\ \A u \in D : users[u].role \in Role
  BY DEF IInv, TypeOK, User
<1>3. seeding' \in [D -> Role] /\ DOMAIN seeding' = D
  BY <1>1, <1>2
<1>4. seeding' # None
  BY <1>2, <1>3, UserAssumption
<1>5. \A s \in Sessions : session'[s] = None
  BY <1>4 DEF OneAtATime
<1>6. /\ DOMAIN seeding' = {u \in DOMAIN users' : users'[u].phone_number \in registry'}
      /\ \A u \in DOMAIN seeding' : seeding'[u] = users'[u].role
  BY <1>1, <1>3
<1>7. NoGap' /\ NotifyViaIsLinked' /\ NeverTurnedAway'
  BY <1>1, <1>4 DEF InSequence, NoGap, NotifyViaIsLinked, NeverTurnedAway
<1> QED BY <1>5, <1>6, <1>7 DEF InSequence

\* Whoever owned a configured number when the bot started is promoted.
LEMMA SeedCommitInSequence ==
  ASSUME IInv, InSequence, OneAtATime', SeedCommit
  PROVE  InSequence'
<1> DEFINE promoted == {u \in DOMAIN seeding : seeding[u] # "ADMIN"}
<1>1. /\ users' = [u \in DOMAIN users |->
                     IF u \in promoted THEN assign_role(users[u], "ADMIN") ELSE users[u]]
      /\ seeding # None /\ seeding' = None
      /\ UNCHANGED <<session, registry, answer>>
  BY DEF SeedCommit
<1>2. \A s \in Sessions : session'[s] = None
  BY <1>1 DEF InSequence, OneAtATime
<1>3. ASSUME NEW u \in DOMAIN users
      PROVE  /\ users'[u].phone_number = users[u].phone_number
             /\ users'[u].notify_via = users[u].notify_via
             /\ users'[u].accounts = users[u].accounts
             /\ users[u].phone_number \in registry => users'[u].role = "ADMIN"
  <2>1. users[u] \in User
    BY DEF IInv, TypeOK
  <2> DEFINE new == assign_role(users[u], "ADMIN")
  <2>2. /\ new.phone_number = users[u].phone_number /\ new.role = "ADMIN"
        /\ new.notify_via = users[u].notify_via /\ new.accounts = users[u].accounts
    BY <2>1 DEF assign_role, User
  <2> HIDE DEF new
  <2>3. users'[u] = IF u \in promoted THEN new ELSE users[u]
    BY <1>1 DEF new
  <2>4. users[u].phone_number \in registry /\ u \notin promoted => users[u].role = "ADMIN"
    BY <1>1 DEF InSequence
  <2> HIDE DEF promoted
  <2> QED BY <2>2, <2>3, <2>4
<1>4. DOMAIN users' = DOMAIN users
  BY <1>1
<1>5. NoGap' /\ NotifyViaIsLinked' /\ NeverTurnedAway'
  BY <1>1, <1>3, <1>4 DEF InSequence, NoGap, NotifyViaIsLinked, NeverTurnedAway
<1> QED BY <1>1, <1>2, <1>5 DEF InSequence

LEMMA NextInSequence ==
  ASSUME IInv, InSequence, OneAtATime', [Next]_vars
  PROVE  InSequence'
<1>1. CASE UNCHANGED vars
  BY <1>1 DEF vars, InSequence, NoGap, NotifyViaIsLinked, NeverTurnedAway, Fresh, Finds,
     Owns, AccountFree
<1>2. ASSUME NEW s \in Sessions,
             \/ \E a \in Account, c \in Commands :
                  \/ \E u \in DOMAIN users : GateKnown(s, a, c, u)
                  \/ GateStranger(s, a, c)
             \/ \E u \in DOMAIN users : LoadSubject(s, u) \/ LoadTarget(s, u)
             \/ LoadContact(s)
      PROVE  InSequence'
  BY <1>2, GatesInSequence, LoadSubjectInSequence, LoadTargetInSequence,
     LoadContactInSequence
<1>3. ASSUME NEW s \in Sessions,
             \/ KnownContact(s) \/ RefuseAsTaken(s) \/ Rollback(s)
             \/ LinkContact(s)
             \/ \E u \in UserIds : RegisterNew(s, u)
      PROVE  InSequence'
  BY <1>3, EndingsInSequence, LinkInSequence, RegisterInSequence
<1>4. ASSUME NEW s \in Sessions,
             \/ RenameUser(s) \/ ChangeUserLocale(s)
             \/ ChangeNotificationPreferences(s) \/ UnlinkMessengerAccount(s)
             \/ ChangeUserRole(s) \/ BlockUser(s) \/ UnblockUser(s)
      PROVE  InSequence'
  BY <1>4, RenameInSequence, LocaleInSequence, PreferencesInSequence, UnlinkInSequence,
     RoleInSequence, BlockInSequence, UnblockInSequence
<1>5. CASE \E numbers \in SUBSET AdminPhones : SeedRead(numbers)
  BY <1>5, SeedReadInSequence
<1>6. CASE SeedCommit
  BY <1>6, SeedCommitInSequence
<1> QED BY <1>1, <1>2, <1>3, <1>4, <1>5, <1>6 DEF Next

LEMMA InitInSequence == Init => InSequence
<1> SUFFICES ASSUME Init PROVE InSequence
  OBVIOUS
<1>1. DOMAIN users = {} /\ seeding = None /\ \A s \in Sessions : session[s] = None
  BY DEF Init
<1>2. OneAtATime /\ NoGap /\ NotifyViaIsLinked
  BY <1>1 DEF OneAtATime, NoGap, NotifyViaIsLinked
<1>3. NeverTurnedAway
  BY UserAssumption DEF Init, NeverTurnedAway
<1> QED BY <1>1, <1>2, <1>3 DEF InSequence

\* alone is history: it never holds a request back.
LEMMA Sequenced == MCSpec => [](IInv /\ SeqInv)
<1>1. MCInit => IInv /\ SeqInv
  BY InitIInv, InitInSequence DEF MCInit, SeqInv
<1>2. IInv /\ SeqInv /\ [MCNext]_<<vars, story, alone>> => IInv' /\ SeqInv'
  <2> SUFFICES ASSUME IInv, SeqInv, [MCNext]_<<vars, story, alone>>
               PROVE  IInv' /\ SeqInv'
    OBVIOUS
  <2>1. [Next]_vars
    BY DEF MCNext
  <2>2. IInv'
    BY <2>1, NextIInv
  <2>3. ASSUME alone' PROVE InSequence'
    <3>1. CASE MCNext
      <4>1. alone /\ OneAtATime'
        BY <2>3, <3>1 DEF MCNext
      <4> QED BY <2>1, <4>1, NextInSequence DEF SeqInv
    <3>2. CASE UNCHANGED <<vars, story, alone>>
      <4>1. alone /\ UNCHANGED vars
        BY <2>3, <3>2
      <4>2. OneAtATime'
        BY <4>1 DEF SeqInv, InSequence, OneAtATime, vars
      <4> QED BY <2>1, <4>1, <4>2, NextInSequence DEF SeqInv
    <3> QED BY <3>1, <3>2
  <2> QED BY <2>2, <2>3 DEF SeqInv
<1> QED BY <1>1, <1>2, PTL DEF MCSpec

\* Until two requests overlap, nobody falls between the start that configures
\* administrators and the registration that watches for them.
THEOREM NoGapWithoutOverlap == MCSpec => []NoGapInSequence
<1>1. SeqInv => NoGapInSequence
  BY DEF SeqInv, InSequence, NoGapInSequence
<1> QED BY <1>1, Sequenced, PTL

\* Until two requests overlap, notifications point at an account the person has,
\* after any sequence of linking, unlinking and choosing.
THEOREM ReachableWithoutOverlap == MCSpec => []ReachableInSequence
<1>1. SeqInv => ReachableInSequence
  BY DEF SeqInv, InSequence, ReachableInSequence
<1> QED BY <1>1, Sequenced, PTL

\* Until two requests overlap, nobody is told that their own number is taken.
THEOREM OnlyARaceTurnsAway == MCSpec => []TurnedAwayOnlyByARace
<1>1. SeqInv => TurnedAwayOnlyByARace
  BY DEF SeqInv, InSequence, TurnedAwayOnlyByARace
<1> QED BY <1>1, Sequenced, PTL

\* The behaviours in which a request begins only when nothing else is under way.
SerialSpec == Init /\ [][Next /\ OneAtATime']_vars

\* The three together, for requests of any kind from any account: one after
\* another they leave no gap between configuring and registering administrators,
\* keep everybody reachable, and turn nobody away.
THEOREM CorrectInSequence ==
  SerialSpec => [](NoGap /\ NotifyViaIsLinked /\ NeverTurnedAway)
<1>1. Init => IInv /\ InSequence
  BY InitIInv, InitInSequence
<1>2. IInv /\ InSequence /\ [Next /\ OneAtATime']_vars => IInv' /\ InSequence'
  <2> SUFFICES ASSUME IInv, InSequence, [Next /\ OneAtATime']_vars
               PROVE  IInv' /\ InSequence'
    OBVIOUS
  <2>1. [Next]_vars
    OBVIOUS
  <2>2. OneAtATime'
    BY DEF InSequence, OneAtATime, vars
  <2> QED BY <2>1, <2>2, NextIInv, NextInSequence
<1>3. InSequence => NoGap /\ NotifyViaIsLinked /\ NeverTurnedAway
  BY DEF InSequence
<1> QED BY <1>1, <1>2, <1>3, PTL DEF SerialSpec
=============================================================================
