---------------------------- MODULE UserAccounts ----------------------------
(***************************************************************************)
(* People, the messenger accounts they write from, their roles, and the    *)
(* requests that change them.                                              *)
(*                                                                         *)
(* An update is let in by the auth gate, which finds somebody behind the   *)
(* account it came from and keeps no row of them; the command handler asks *)
(* again who that is and loads them, then the person the command names,    *)
(* checks the permission and runs the aggregate's method on what it        *)
(* loaded; the commit writes the columns that changed.  Nothing is locked  *)
(* in between.  Unique indexes hold what no single aggregate can see: a    *)
(* number and an account have one owner.                                   *)
(***************************************************************************)
EXTENDS Naturals, Sequences

CONSTANTS UserIds,      \* ids the generator hands out
          Phones,       \* phone numbers in canonical form
          AdminPhones,  \* the numbers the configuration may ever name as administrators
          Platforms,    \* messengers
          ExternalIds,  \* ids of accounts within a messenger
          Names,        \* full names
          Locales,      \* supported locales
          Reasons,      \* block reasons
          Sessions,     \* request-scoped database sessions
          Commands,     \* the commands people send
          None,         \* SQL NULL and Python None
          MaxEvents     \* bound: events of one person after which no request starts

Role == {"CUSTOMER", "MANAGER", "ADMIN"}

Command ==
  [kind : {"RegisterUser"}, phone_number : Phones, full_name : Names,
   locale : Locales]
    \cup [kind : {"RenameUser"}, user_id : UserIds, full_name : Names]
    \cup [kind : {"ChangeUserLocale"}, user_id : UserIds, locale : Locales]
    \cup [kind : {"ChangeNotificationPreferences"}, user_id : UserIds,
          notify_via : Platforms, marketing_consent : BOOLEAN]
    \cup [kind : {"UnlinkMessengerAccount"}, user_id : UserIds,
          platform : Platforms]
    \cup [kind : {"ChangeUserRole"}, user_id : UserIds, role : Role]
    \cup [kind : {"BlockUser"}, user_id : UserIds, reason : Reasons]
    \cup [kind : {"UnblockUser"}, user_id : UserIds]

ASSUME UserAssumption ==
  /\ AdminPhones \subseteq Phones
  /\ None \notin UserIds \cup Reasons \cup ExternalIds \cup {"welcome", "taken"}
  /\ \A ids \in SUBSET UserIds : None \notin [ids -> Role]
  /\ Commands \subseteq Command
  /\ MaxEvents \in Nat

VARIABLES users,    \* the users and messenger_accounts tables: id -> row
          trail,    \* id -> the events recorded about that person, in commit order
          session,  \* session -> the request it is serving
          registry, \* StaticAdminRegistry: the numbers configured at the last start
          seeding,  \* what a starting replica has read of the configured admins
          answer    \* account -> what its last shared contact was answered with

vars == <<users, trail, session, registry, seeding, answer>>

admin == <<registry, seeding>>

Account == [platform : Platforms, external_id : ExternalIds]

\* One row per human; an account list holds one account per platform.
User ==
  [phone_number      : Phones,
   full_name         : Names,
   locale            : Locales,
   marketing_consent : BOOLEAN,
   notify_via        : Platforms,
   role              : Role,
   status            : {"ACTIVE", "BLOCKED"},
   block_reason      : Reasons \cup {None},
   accounts          : [Platforms -> ExternalIds \cup {None}]]

Event ==
  [type : {"UserRegistered", "MessengerAccountLinked",
           "MessengerAccountUnlinked", "UserRenamed",
           "UserPreferencesChanged", "UserBlocked", "UserUnblocked"}]
    \cup [type : {"UserRoleChanged"}, old_role : Role, new_role : Role]

Recorded(type) == [type |-> type]

UserRoleChanged(old, new) ==
  [type |-> "UserRoleChanged", old_role |-> old, new_role |-> new]
-----------------------------------------------------------------------------
(* domain/users/services/authorization *)

\* Who each role is allowed to act upon.
SUBORDINATE_ROLES(role) ==
  CASE role = "ADMIN"    -> {"MANAGER", "CUSTOMER"}
    [] role = "MANAGER"  -> {"CUSTOMER"}
    [] role = "CUSTOMER" -> {}

CanManageSubordinate(subject, target) ==
  target.role \in SUBORDINATE_ROLES(subject.role)

CanManageRole(subject, role) == role \in SUBORDINATE_ROLES(subject.role)
-----------------------------------------------------------------------------
(* The User aggregate *)

NoAccounts == [p \in Platforms |-> None]

\* Notifications start on the platform the person came from.
register(c, a) ==
  [phone_number      |-> c.phone_number,
   full_name         |-> c.full_name,
   locale            |-> c.locale,
   marketing_consent |-> FALSE,
   notify_via        |-> a.platform,
   role              |-> "CUSTOMER",
   status            |-> "ACTIVE",
   block_reason      |-> None,
   accounts          |-> [NoAccounts EXCEPT ![a.platform] = a.external_id]]

Linked(user) == {p \in Platforms : user.accounts[p] # None}

link_account(user, a) ==
  [user EXCEPT !.accounts = [@ EXCEPT ![a.platform] = a.external_id]]

CanUnlink(user, platform) ==
  /\ user.accounts[platform] # None
  /\ Linked(user) # {platform}

\* Mutant: the notification target is not moved.
UnlinkOnly(user, platform, next) ==
  [user EXCEPT !.accounts = [@ EXCEPT ![platform] = None]]

\* next is the platform notifications move to when they pointed at this one:
\* one of those that remain (the list is by age, which nothing else reads).
unlink_account(user, platform, next) ==
  [user EXCEPT !.accounts = [@ EXCEPT ![platform] = None],
               !.notify_via = IF @ = platform THEN next ELSE @]

rename(user, name) == [user EXCEPT !.full_name = name]

\* change_preferences: notifications never point at a platform not in use.
CanPrefer(user, platform) == user.accounts[platform] # None

assign_role(user, role) == [user EXCEPT !.role = role]

block(user, reason) ==
  [user EXCEPT !.status = "BLOCKED", !.block_reason = reason]

unblock(user) == [user EXCEPT !.status = "ACTIVE", !.block_reason = None]

\* Mutant: a fresh UserPreferences is built and the language falls back.
FreshPreferences(user, platform, consent) ==
  [user EXCEPT !.notify_via = platform, !.marketing_consent = consent,
               !.locale = CHOOSE l \in Locales : TRUE]

WithLocale(user, locale) == [user EXCEPT !.locale = locale]

\* with_notify_via and with_marketing_consent: the language stays.
WithNotification(user, platform, consent) ==
  [user EXCEPT !.notify_via = platform, !.marketing_consent = consent]
-----------------------------------------------------------------------------
(* The tables *)

Owns(u, a) == users[u].accounts[a.platform] = a.external_id

\* The primary key of messenger_accounts.
AccountFree(a) == \A u \in DOMAIN users : ~Owns(u, a)

\* Both unique keys an INSERT of a new person has to satisfy.
Insertable(c, a) ==
  /\ AccountFree(a)
  /\ \A u \in DOMAIN users : users[u].phone_number # c.phone_number

\* The rows the unit of work writes at the commit: a column is written when
\* the method left it different from what the session had read; an account is
\* deleted by its primary key, so one linked anew in the meantime stays.
Flush(seen, after, row) ==
  LET Column(s, a, r) == IF a # s THEN a ELSE r
  IN  [phone_number      |-> row.phone_number,
       full_name         |-> Column(seen.full_name, after.full_name, row.full_name),
       locale            |-> Column(seen.locale, after.locale, row.locale),
       marketing_consent |-> Column(seen.marketing_consent,
                                    after.marketing_consent,
                                    row.marketing_consent),
       notify_via        |-> Column(seen.notify_via, after.notify_via,
                                    row.notify_via),
       role              |-> Column(seen.role, after.role, row.role),
       status            |-> Column(seen.status, after.status, row.status),
       block_reason      |-> Column(seen.block_reason, after.block_reason,
                                    row.block_reason),
       accounts          |-> [p \in Platforms |->
                                IF /\ after.accounts[p] = None
                                   /\ seen.accounts[p] # row.accounts[p]
                                  THEN row.accounts[p]
                                  ELSE Column(seen.accounts[p],
                                              after.accounts[p],
                                              row.accounts[p])]]

-----------------------------------------------------------------------------
(* Requests *)

Request ==
  [account : Account, command : Commands, stage : {"gated", "known", "loaded"},
   subject : UserIds \cup {None}, me : User \cup {None},
   target : UserIds \cup {None}, seen : User \cup {None}]

\* One chat's updates are handled one after another.
EventIsolation(a) ==
  \A t \in Sessions : session[t] # None => session[t].account # a

Ends(s) == session' = [session EXCEPT ![s] = None]

Commit(s, after, events) ==
  LET q == session[s]
  IN  /\ users' = [users EXCEPT ![q.target] = Flush(q.seen, after, @)]
      /\ trail' = [trail EXCEPT ![q.target] = @ \o events]
      /\ Ends(s)
      /\ UNCHANGED admin

\* A command about a person, past its reads.
Serving(s, kind) ==
  /\ session[s] # None
  /\ session[s].stage = "loaded"
  /\ session[s].command.kind = kind

CanManageSelf(q) == q.subject = q.target

\* AnyOf(CanManageSelf, CanManageSubordinate).
MayEdit(q) == CanManageSelf(q) \/ CanManageSubordinate(q.me, q.seen)

\* Whom an unregistered person may be: somebody who shares a contact.
is_registration_step(c) == c.kind = "RegisterUser"
-----------------------------------------------------------------------------
Init ==
  /\ users   = [u \in {} |-> u]
  /\ trail   = [u \in UserIds |-> <<>>]
  /\ session = [s \in Sessions |-> None]
  /\ registry = {}
  /\ seeding = None
  /\ answer  = [a \in Account |-> None]

\* What the gate finds is for the handlers that show it: a command asks again.
Opens(s, a, c) ==
  session' = [session EXCEPT ![s] =
                [account |-> a, command |-> c, stage |-> "gated",
                 subject |-> None, me |-> None, target |-> None, seen |-> None]]

\* AuthMiddleware: whoever is known and not blocked is let in.
GateKnown(s, a, c, u) ==
  /\ session[s] = None
  /\ EventIsolation(a)
  /\ Owns(u, a)
  /\ users[u].status = "ACTIVE"
  /\ \A x \in UserIds : Len(trail[x]) < MaxEvents
  /\ Opens(s, a, c)
  /\ UNCHANGED <<users, trail, admin, answer>>

\* AuthMiddleware: a stranger is let in to share a contact and nothing else;
\* the start handler takes the contact only when it is the sender's own.
GateStranger(s, a, c) ==
  /\ session[s] = None
  /\ EventIsolation(a)
  /\ AccountFree(a)
  /\ is_registration_step(c)
  /\ \A x \in UserIds : Len(trail[x]) < MaxEvents
  /\ Opens(s, a, c)
  /\ UNCHANGED <<users, trail, admin, answer>>

\* UserProvider.current: whoever the account belongs to by now, as they are now.
LoadSubject(s, u) ==
  LET q == session[s]
  IN  /\ q # None
      /\ q.stage = "gated"
      /\ ~is_registration_step(q.command)
      /\ Owns(u, q.account)
      /\ session' = [session EXCEPT ![s] =
                       [q EXCEPT !.stage = "known", !.subject = u, !.me = users[u]]]
      /\ UNCHANGED <<users, trail, admin, answer>>

\* UserProvider.by_id: a second statement, unless they are the one object.
LoadTarget(s, u) ==
  LET q == session[s]
  IN  /\ q # None
      /\ q.stage = "known"
      /\ u = q.command.user_id
      /\ session' = [session EXCEPT ![s] =
                       [q EXCEPT !.stage = "loaded", !.target = u,
                                 !.seen = IF u = q.subject THEN q.me
                                                           ELSE users[u]]]
      /\ UNCHANGED <<users, trail, admin, answer>>

\* Mutant: the number is not looked for.
FindsByAccount(q, u) == Owns(u, q.account)

\* RegisterUserHandler looks for the account first and for the number second.
Finds(q, u) ==
  \/ Owns(u, q.account)
  \/ AccountFree(q.account) /\ users[u].phone_number = q.command.phone_number

LoadContact(s) ==
  LET q == session[s]
      Loaded(u, row) == session' = [session EXCEPT ![s] =
        [q EXCEPT !.stage = "loaded", !.target = u, !.seen = row]]
  IN  /\ q # None
      /\ q.stage = "gated"
      /\ q.command.kind = "RegisterUser"
      /\ \/ \E u \in DOMAIN users :
              Finds(q, u) /\ Loaded(u, users[u])
         \/ (\A u \in DOMAIN users : ~Finds(q, u)) /\ Loaded(None, None)
      /\ UNCHANGED <<users, trail, admin, answer>>

Answered(s, text) == answer' = [answer EXCEPT ![session[s].account] = text]

\* A repeated contact: the handle is refreshed, which nothing reads back.
KnownContact(s) ==
  LET q == session[s]
  IN  /\ Serving(s, "RegisterUser")
      /\ q.target # None
      /\ q.seen.accounts[q.account.platform] = q.account.external_id
      /\ Ends(s)
      /\ Answered(s, "welcome")
      /\ UNCHANGED <<users, trail, admin>>

\* The number is known from another platform: the account joins that person.
\* The INSERT has to satisfy both keys of messenger_accounts.
LinkContact(s) ==
  LET q == session[s]
  IN  /\ Serving(s, "RegisterUser")
      /\ q.target # None
      /\ q.seen.accounts[q.account.platform] = None
      /\ AccountFree(q.account)
      /\ users[q.target].accounts[q.account.platform] = None
      /\ Commit(s, link_account(q.seen, q.account),
                <<Recorded("MessengerAccountLinked")>>)
      /\ Answered(s, "welcome")

\* Mutant: a configured number waits for the next start.
AdminAtNextStart(c) == FALSE

is_admin(c) == c.phone_number \in registry

RegistrationEvents(c) ==
  IF is_admin(c)
    THEN <<Recorded("UserRegistered"), UserRoleChanged("CUSTOMER", "ADMIN")>>
    ELSE <<Recorded("UserRegistered")>>

\* A new person, an administrator at once if the configuration says so.
RegisterNew(s, u) ==
  LET q   == session[s]
      new == register(q.command, q.account)
      row == IF is_admin(q.command) THEN assign_role(new, "ADMIN") ELSE new
  IN  /\ Serving(s, "RegisterUser")
      /\ q.target = None
      /\ u \notin DOMAIN users
      /\ Insertable(q.command, q.account)
      /\ users' = [x \in DOMAIN users \cup {u} |->
                     IF x = u THEN row ELSE users[x]]
      /\ trail' = [trail EXCEPT ![u] = @ \o RegistrationEvents(q.command)]
      /\ Ends(s)
      /\ Answered(s, "welcome")
      /\ UNCHANGED admin

\* The flush of the INSERT met a unique index: UserAlreadyExistsError, which
\* reaches the error handler and, through it, the person.
RefuseAsTaken(s) ==
  LET q == session[s]
  IN  /\ Serving(s, "RegisterUser")
      /\ q.target = None
      /\ ~Insertable(q.command, q.account)
      /\ Ends(s)
      /\ Answered(s, "taken")
      /\ UNCHANGED <<users, trail, admin>>

\* A method that finds nothing to change records no event.
Change(s, after, event) ==
  /\ Commit(s, after, IF after = session[s].seen THEN <<>> ELSE <<event>>)
  /\ UNCHANGED answer

RenameUser(s) ==
  LET q == session[s]
  IN  /\ Serving(s, "RenameUser")
      /\ MayEdit(q)
      /\ Change(s, rename(q.seen, q.command.full_name), Recorded("UserRenamed"))

\* change_preferences checks the notification target whichever setting moved.
ChangeUserLocale(s) ==
  LET q == session[s]
  IN  /\ Serving(s, "ChangeUserLocale")
      /\ MayEdit(q)
      /\ CanPrefer(q.seen, q.seen.notify_via)
      /\ Change(s, WithLocale(q.seen, q.command.locale),
                Recorded("UserPreferencesChanged"))

ChangeNotificationPreferences(s) ==
  LET q == session[s]
      c == q.command
  IN  /\ Serving(s, "ChangeNotificationPreferences")
      /\ MayEdit(q)
      /\ CanPrefer(q.seen, c.notify_via)
      /\ Change(s, WithNotification(q.seen, c.notify_via, c.marketing_consent),
                Recorded("UserPreferencesChanged"))

UnlinkMessengerAccount(s) ==
  LET q == session[s]
      p == q.command.platform
  IN  /\ Serving(s, "UnlinkMessengerAccount")
      /\ MayEdit(q)
      /\ CanUnlink(q.seen, p)
      /\ \E next \in Linked(q.seen) \ {p} :
           Change(s, unlink_account(q.seen, p, next),
                  Recorded("MessengerAccountUnlinked"))

\* Two questions: may they act on this person, may they hand out this role.
MayChangeRole(q) ==
  /\ CanManageSubordinate(q.me, q.seen)
  /\ CanManageRole(q.me, q.command.role)

ChangeUserRole(s) ==
  LET q == session[s]
  IN  /\ Serving(s, "ChangeUserRole")
      /\ MayChangeRole(q)
      /\ Change(s, assign_role(q.seen, q.command.role),
                UserRoleChanged(q.seen.role, q.command.role))

BlockUser(s) ==
  LET q == session[s]
  IN  /\ Serving(s, "BlockUser")
      /\ CanManageSubordinate(q.me, q.seen)
      /\ q.seen.status # "BLOCKED"
      /\ Change(s, block(q.seen, q.command.reason), Recorded("UserBlocked"))

UnblockUser(s) ==
  LET q == session[s]
  IN  /\ Serving(s, "UnblockUser")
      /\ CanManageSubordinate(q.me, q.seen)
      /\ q.seen.status # "ACTIVE"
      /\ Change(s, unblock(q.seen), Recorded("UserUnblocked"))

\* The handler raised, the commit failed or the process died.
Rollback(s) ==
  /\ session[s] # None
  /\ Ends(s)
  /\ UNCHANGED <<users, trail, admin, answer>>

\* The bot starts with these numbers configured, and SeedAdminsHandler reads
\* whoever owns one of them.
SeedRead(numbers) ==
  /\ seeding = None
  /\ registry' = numbers
  /\ seeding' = [u \in {x \in DOMAIN users : users[x].phone_number \in numbers}
                   |-> users[u].role]
  /\ UNCHANGED <<users, trail, session, answer>>

\* Mutant: the promotion is an UPDATE beside the aggregate.
PromotedUnrecorded(u) == <<>>

\* The promotion is recorded like any other.
PromotionEvents(u) == <<UserRoleChanged(seeding[u], "ADMIN")>>

\* It promotes those that were not administrators when it read them.
SeedCommit ==
  /\ seeding # None
  /\ LET promoted == {u \in DOMAIN seeding : seeding[u] # "ADMIN"}
     IN  /\ users' = [u \in DOMAIN users |->
                        IF u \in promoted THEN assign_role(users[u], "ADMIN")
                                          ELSE users[u]]
         /\ trail' = [u \in UserIds |->
                        IF u \in promoted THEN trail[u] \o PromotionEvents(u)
                                          ELSE trail[u]]
  /\ seeding' = None
  /\ UNCHANGED <<session, registry, answer>>

Next ==
  \/ \E s \in Sessions :
       \/ \E a \in Account, c \in Commands :
            \/ \E u \in DOMAIN users : GateKnown(s, a, c, u)
            \/ GateStranger(s, a, c)
       \/ \E u \in DOMAIN users : LoadSubject(s, u) \/ LoadTarget(s, u)
       \/ LoadContact(s)
       \/ KnownContact(s)
       \/ LinkContact(s)
       \/ \E u \in UserIds : RegisterNew(s, u)
       \/ RefuseAsTaken(s)
       \/ RenameUser(s)
       \/ ChangeUserLocale(s)
       \/ ChangeNotificationPreferences(s)
       \/ UnlinkMessengerAccount(s)
       \/ ChangeUserRole(s)
       \/ BlockUser(s)
       \/ UnblockUser(s)
       \/ Rollback(s)
  \/ \E numbers \in SUBSET AdminPhones : SeedRead(numbers)
  \/ SeedCommit

Spec == Init /\ [][Next]_vars
-----------------------------------------------------------------------------
(* Where requests do not overlap. *)

OneAtATime ==
  /\ \A s, t \in Sessions : session[s] # None /\ session[t] # None => s = t
  /\ seeding # None => \A s \in Sessions : session[s] = None
-----------------------------------------------------------------------------
(* Properties of every behaviour *)

\* Every row, event and request in flight has its shape.
TypeOK ==
  /\ DOMAIN users \subseteq UserIds
  /\ users \in [DOMAIN users -> User]
  /\ trail \in [UserIds -> Seq(Event)]
  /\ session \in [Sessions -> Request \cup {None}]
  /\ registry \subseteq AdminPhones
  /\ \/ seeding = None
     \/ /\ DOMAIN seeding \subseteq DOMAIN users
        /\ seeding \in [DOMAIN seeding -> Role]
  /\ answer \in [Account -> {None, "welcome", "taken"}]

\* The role the events of a person tell: the last change, or the default.
TellsRole(events, role) ==
  \/ /\ role = "CUSTOMER"
     /\ \A i \in DOMAIN events : events[i].type # "UserRoleChanged"
  \/ \E i \in DOMAIN events :
       /\ events[i].type = "UserRoleChanged"
       /\ events[i].new_role = role
       /\ \A j \in DOMAIN events : j > i => events[j].type # "UserRoleChanged"

\* The trail has no hole where an administrator came from: whoever granted it
\* and whatever overlapped, the last recorded change is the role of the row.
TrailTellsTheRole == \A u \in DOMAIN users : TellsRole(trail[u], users[u].role)

\* The commands that may write each column of a person already registered.
Writers(column) ==
  CASE column = "full_name"         -> {"RenameUser"}
    [] column = "locale"            -> {"ChangeUserLocale"}
    [] column = "marketing_consent" -> {"ChangeNotificationPreferences"}
    [] column = "notify_via"        -> {"ChangeNotificationPreferences",
                                        "UnlinkMessengerAccount"}
    [] column = "accounts"          -> {"RegisterUser", "UnlinkMessengerAccount"}
    [] column = "status"            -> {"BlockUser", "UnblockUser"}
    [] column = "block_reason"      -> {"BlockUser", "UnblockUser"}
    [] OTHER                        -> {}

\* A request leaves alone what it was not asked to change, although it commits
\* a copy that is older than the row: the language survives an edit of the
\* notification channel, a block survives a rename, and the other way round.
OnlyWhatWasAsked ==
  [][\A u \in DOMAIN users :
       \A column \in {"phone_number", "full_name", "locale",
                      "marketing_consent", "notify_via", "status",
                      "block_reason", "accounts"} :
         users'[u][column] # users[u][column] =>
           \E s \in Sessions :
             /\ session[s] # None
             /\ session'[s] = None
             /\ session[s].target = u
             /\ session[s].command.kind \in Writers(column)]_vars
-----------------------------------------------------------------------------
(* Properties of the behaviours without overlapping requests *)

\* Nobody who shares their own contact is told that the number is taken: it is
\* looked for before the person is written.
NeverTurnedAway == \A a \in Account : answer[a] # "taken"

\* Everybody is reachable: notifications point at an account they have, so
\* there always is one, after any sequence of linking, unlinking and choosing.
NotifyViaIsLinked ==
  \A u \in DOMAIN users : users[u].accounts[users[u].notify_via] # None

\* Whoever owns a configured number is an administrator, once the start that
\* configured it is through: SeedAdmins covers who was registered before, the
\* registration handler who comes later, and there is no gap between the two.
NoGap ==
  seeding = None =>
    \A u \in DOMAIN users :
      users[u].phone_number \in registry => users[u].role = "ADMIN"
=============================================================================
