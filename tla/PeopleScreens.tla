---------------------------- MODULE PeopleScreens ----------------------------
(***************************************************************************)
(* The profile and the admin dialog.  Every update first passes the auth   *)
(* gate, which reads a view of the person behind it; the handler then      *)
(* shows and sends what is in that view, while other chats go on.  The     *)
(* commands and queries ask again who is writing and judge them by the     *)
(* table.  The updates of one chat do not overlap.  The commands are those *)
(* of UserAccounts, reduced to what these screens show.                    *)
(***************************************************************************)
EXTENDS Paging, Sequences

CONSTANTS People,      \* ids, by the time of registration
          FirstTables, \* what the table may be at first: People -> row, or None for a stranger
          Names, Locales, Platforms,
          Telegram,    \* the platform these chats are on
          Stranger,    \* what the gate has for an account nobody owns
          Opens,       \* bound: People -> the commands sent
          InFlight     \* bound: People -> updates of the chat waiting at once

VARIABLES users,       \* the table: People -> row or None
          dialog,      \* each chat's window and dialog data
          screen,      \* each chat's message, as last drawn
          queue,       \* each chat's updates on their way, in order
          serving,     \* each chat's update past the gate: the view it loaded
          late         \* commands of a person committed since they were blocked

vars == <<users, dialog, screen, queue, serving, late>>

Role == {"CUSTOMER", "MANAGER", "ADMIN"}

Row ==
    [role : Role, blocked : BOOLEAN, name : Names, locale : Locales, notify_via : Platforms,
     marketing_consent : BOOLEAN, accounts : SUBSET Platforms]

ASSUME PeopleAssumption ==
    /\ People \subseteq Nat
    /\ FirstTables \subseteq [People -> Row \cup {None}]
    /\ None \notin Row
    /\ Telegram \in Platforms
    /\ InFlight \in [People -> Nat]

SUBORDINATE_ROLES(role) ==
    CASE role = "ADMIN"    -> {"MANAGER", "CUSTOMER"}
      [] role = "MANAGER"  -> {"CUSTOMER"}
      [] role = "CUSTOMER" -> {}

IsStaff(view) == view.role \in {"MANAGER", "ADMIN"}

-----------------------------------------------------------------------------
(* Windows *)

ProfileWindows == {"MAIN", "RENAME", "LOCALE", "NOTIFICATIONS", "ACCOUNTS"}

\* The rows read_all pages, newest first, and counts.
read_all(table) == {p \in People : table[p] # None}

\* The queries behind the list and the card are for who is staff when they are asked.
CanBeDrawn(row, d) ==
    /\ d.window \in {"USERS", "CARD"} => IsStaff(row)
    /\ d.window = "CARD" => d.user # None

profile_getter(view) == IF Cardinality(view.accounts) > 1 THEN Plain({"accounts"}) ELSE {}

locales_getter == {Button("locale_select", l) : l \in Locales}

accounts_getter(id, view) == {Button(id, a) : a \in view.accounts}

NewestFirst == {r \in People \X People : r[1] > r[2]}

users_getter(d, table) ==
    LET list == read_all(table)
    IN  {Button("user_select", p) : p \in PageOf(list, NewestFirst, d.page)}
          \cup (IF d.page > 0 THEN Plain({"prev"}) ELSE {})
          \cup (IF (d.page + 1) * PageSize < Cardinality(list) THEN Plain({"next"}) ELSE {})

roles_getter == {Button("role_select", r) : r \in {"CUSTOMER", "MANAGER"}}

card_arguments(user) == Plain({IF user.blocked THEN "unblock" ELSE "block"})

ProfileButtons(view, window) ==
    CASE window = "MAIN" ->
            profile_getter(view) \cup Plain({"rename", "locale", "notifications", "close"})
      [] window = "RENAME" -> Plain({"back"})
      [] window = "LOCALE" -> locales_getter \cup Plain({"back"})
      [] window = "NOTIFICATIONS" ->
            accounts_getter("notify_select", view) \cup Plain({"marketing", "back"})
      [] window = "ACCOUNTS" -> accounts_getter("unlink_select", view) \cup Plain({"back"})

AdminButtons(d, table) ==
    CASE d.window = "USERS" -> users_getter(d, table) \cup Plain({"close"})
      [] d.window = "CARD" -> card_arguments(table[d.user]) \cup Plain({"role", "back"})
      [] d.window = "BLOCK_REASON" -> Plain({"back"})
      [] d.window = "ROLE" -> roles_getter \cup Plain({"back"})

\* What is on the message, and the row it was drawn from: the profile is the view the
\* gate loaded, the card of somebody else is read when it is drawn.
Screen(view, d, table) ==
    [window |-> d.window,
     buttons |-> IF d.window \in ProfileWindows THEN ProfileButtons(view, d.window)
                 ELSE AdminButtons(d, table),
     about |-> CASE d.window \in ProfileWindows -> view
                 [] d.window = "CARD" -> table[d.user]
                 [] OTHER -> None]

\* The widgets of a window, drawn or not: a tap is matched by its id only.
Widgets(window) ==
    CASE window = "closed" -> {}
      [] window = "MAIN" -> {"rename", "locale", "notifications", "accounts", "close"}
      [] window = "RENAME" -> {"back"}
      [] window = "LOCALE" -> {"locale_select", "back"}
      [] window = "NOTIFICATIONS" -> {"notify_select", "marketing", "back"}
      [] window = "ACCOUNTS" -> {"unlink_select", "back"}
      [] window = "USERS" -> {"user_select", "prev", "next", "close"}
      [] window = "CARD" -> {"block", "unblock", "role", "back"}
      [] window = "BLOCK_REASON" -> {"back"}
      [] window = "ROLE" -> {"role_select", "back"}

-----------------------------------------------------------------------------
(* State *)

Open(window) == [window |-> window, user |-> None, page |-> 0]

Closed == Open("closed")

NothingOnIt == [window |-> "closed", buttons |-> {}, about |-> None]

Init ==
    /\ users \in FirstTables
    /\ dialog = [p \in People |-> Closed]
    /\ screen = [p \in People |-> NothingOnIt]
    /\ queue = [p \in People |-> <<>>]
    /\ serving = [p \in People |-> None]
    /\ late = [p \in People |-> 0]

-----------------------------------------------------------------------------
(* What people do *)

Sends(p, b) ==
    /\ Len(queue[p]) < InFlight[p]
    /\ queue' = [queue EXCEPT ![p] = Append(@, b)]
    /\ UNCHANGED <<users, dialog, screen, serving, late>>

Tap(p) == \E b \in screen[p].buttons : Sends(p, b)

\* Text sent to any other window is answered by the fallback and changes nothing.
Type(p) ==
    /\ screen[p].window \in {"RENAME", "BLOCK_REASON"}
    /\ \E n \in Names : Sends(p, Button("text", n))

Command(p) == \E c \in Opens[p] : Sends(p, Button(c, None))

-----------------------------------------------------------------------------
(* The gate *)

update(p) == Head(queue[p])

\* Whom the account behind the chat belongs to.
Known(p) == users[p] # None /\ Telegram \in users[p].accounts

\* Mutant: a block is noticed when the next dialog is opened.
LetsInUntilTheNextCommand(p) ==
    /\ Known(p)
    /\ update(p).id \in {"/me", "/admin"} => ~users[p].blocked

LetsIn(p) == Known(p) /\ ~users[p].blocked

is_registration_step(p) == update(p).id \in {"/start", "contact"}

AuthMiddleware(p) ==
    /\ queue[p] # <<>> /\ serving[p] = None
    /\ IF LetsIn(p) \/ (~Known(p) /\ is_registration_step(p))
       THEN /\ serving' = [serving EXCEPT ![p] = IF Known(p) THEN users[p] ELSE Stranger]
            /\ UNCHANGED queue
       ELSE queue' = [queue EXCEPT ![p] = Tail(@)] /\ UNCHANGED serving
    /\ UNCHANGED <<users, dialog, screen, late>>

-----------------------------------------------------------------------------
(* The handlers *)

\* Mutant: the profile is kept from when the window was drawn.
ViewOnScreen(p) ==
    IF dialog[p].window \in ProfileWindows THEN screen[p].about ELSE serving[p]

\* middleware_data["user"]
user(p) == serving[p]

Served(p) == serving[p] \notin {None, Stranger}

Tapped(p, id) == Served(p) /\ update(p).id = id /\ id \in Widgets(dialog[p].window)

Typed(p, window) == Served(p) /\ update(p).id = "text" /\ dialog[p].window = window

Finished(p) ==
    /\ queue' = [queue EXCEPT ![p] = Tail(@)]
    /\ serving' = [serving EXCEPT ![p] = None]

\* The handler left the table as it is given, and the dialog as d was drawn.
Shows(p, d, table) ==
    /\ CanBeDrawn(table[p], d)
    /\ users' = table
    /\ dialog' = [dialog EXCEPT ![p] = d]
    /\ screen' = [screen EXCEPT ![p] = Screen(user(p), d, table)]
    /\ Finished(p)

\* A command of p committed; then the window is drawn, or that fails and the dialog
\* is not saved.
Commits(p, d, table) ==
    /\ late' = [q \in People |->
          IF table[q] # None /\ users[q] # None /\ table[q].blocked # users[q].blocked THEN 0
          ELSE IF q = p /\ users[p].blocked THEN late[q] + 1
          ELSE late[q]]
    /\ \/ Shows(p, d, table)
       \/ users' = table /\ Finished(p) /\ UNCHANGED <<dialog, screen>>

SwitchTo(p, id, from, to) ==
    /\ dialog[p].window = from /\ Tapped(p, id)
    /\ Shows(p, [dialog[p] EXCEPT !.window = to], users) /\ UNCHANGED late

\* The buttons that only change the window.
Navigate(p) ==
    \/ SwitchTo(p, "rename", "MAIN", "RENAME")
    \/ SwitchTo(p, "locale", "MAIN", "LOCALE")
    \/ SwitchTo(p, "notifications", "MAIN", "NOTIFICATIONS")
    \/ SwitchTo(p, "accounts", "MAIN", "ACCOUNTS")
    \/ \E from \in ProfileWindows \ {"MAIN"} : SwitchTo(p, "back", from, "MAIN")
    \/ SwitchTo(p, "block", "CARD", "BLOCK_REASON")
    \/ SwitchTo(p, "role", "CARD", "ROLE")
    \/ SwitchTo(p, "back", "CARD", "USERS")
    \/ \E from \in {"BLOCK_REASON", "ROLE"} : SwitchTo(p, "back", from, "CARD")

Main(p) == [dialog[p] EXCEPT !.window = "MAIN"]

\* FullName and Locale refuse what they do not know.
on_rename(p) ==
    /\ Typed(p, "RENAME") /\ update(p).item \in Names
    /\ Commits(p, Main(p), [users EXCEPT ![p].name = update(p).item])

on_locale_selected(p) ==
    /\ Tapped(p, "locale_select") /\ update(p).item \in Locales
    /\ Commits(p, Main(p), [users EXCEPT ![p].locale = update(p).item])

\* ChangeNotificationPreferences: both settings travel, and both are stored.
Preferences(p, via, consent) ==
    [users EXCEPT ![p] = [users[p] EXCEPT !.notify_via = via, !.marketing_consent = consent]]

on_notify_via_selected(p) ==
    /\ Tapped(p, "notify_select") /\ update(p).item \in users[p].accounts
    /\ Commits(p, Main(p), Preferences(p, update(p).item, user(p).marketing_consent))

on_marketing_toggled(p) ==
    /\ Tapped(p, "marketing")
    /\ Commits(p, Main(p), Preferences(p, user(p).notify_via, ~user(p).marketing_consent))

\* The aggregate refuses the last account, and moves notifications off the one it drops.
Unlinked(row, a) ==
    {[row EXCEPT !.accounts = @ \ {a}, !.notify_via = IF @ = a THEN next ELSE @] :
        next \in row.accounts \ {a}}

on_account_unlinked(p) ==
    /\ Tapped(p, "unlink_select") /\ update(p).item \in users[p].accounts
    /\ \E row \in Unlinked(users[p], update(p).item) :
          Commits(p, Main(p), [users EXCEPT ![p] = row])

on_user_selected(p) ==
    /\ Tapped(p, "user_select")
    /\ Shows(p, [dialog[p] EXCEPT !.window = "CARD", !.user = update(p).item], users)
    /\ UNCHANGED late

on_previous_page(p) ==
    /\ Tapped(p, "prev")
    /\ Shows(p, [dialog[p] EXCEPT !.page = IF @ > 0 THEN @ - 1 ELSE 0], users)
    /\ UNCHANGED late

on_next_page(p) ==
    Tapped(p, "next") /\ Shows(p, [dialog[p] EXCEPT !.page = @ + 1], users) /\ UNCHANGED late

\* UserProvider loads both; CanManageSubordinate, over the roles they hold by now.
MayManage(p, q) ==
    users[q] # None /\ users[q].role \in SUBORDINATE_ROLES(users[p].role)

Card(p) == [dialog[p] EXCEPT !.window = "CARD"]

on_blocked(p) ==
    LET q == dialog[p].user
    IN  /\ Typed(p, "BLOCK_REASON") /\ MayManage(p, q) /\ ~users[q].blocked
        /\ Commits(p, Card(p), [users EXCEPT ![q].blocked = TRUE])

on_unblocked(p) ==
    LET q == dialog[p].user
    IN  /\ Tapped(p, "unblock") /\ MayManage(p, q) /\ users[q].blocked
        /\ Commits(p, Card(p), [users EXCEPT ![q].blocked = FALSE])

on_role_selected(p) ==
    LET q == dialog[p].user
    IN  /\ Tapped(p, "role_select") /\ MayManage(p, q)
        /\ update(p).item \in SUBORDINATE_ROLES(users[p].role)
        /\ Commits(p, Card(p), [users EXCEPT ![q].role = update(p).item])

\* A dialog started over the old one: whatever was tapped on that is outdated.
StillMeant(u) == u.id \in {"text", "/start", "contact", "/me", "/admin"}

StartsOver(p, window) ==
    /\ CanBeDrawn(users[p], Open(window))
    /\ dialog' = [dialog EXCEPT ![p] = Open(window)]
    /\ screen' = [screen EXCEPT ![p] = Screen(user(p), Open(window), users)]
    /\ queue' = [queue EXCEPT ![p] = SelectSeq(Tail(@), StillMeant)]
    /\ serving' = [serving EXCEPT ![p] = None]
    /\ UNCHANGED <<users, late>>

handle_me(p) == Served(p) /\ update(p).id = "/me" /\ StartsOver(p, "MAIN")

\* The staff filter is asked about the view the gate loaded.
handle_admin(p) ==
    Served(p) /\ update(p).id = "/admin" /\ IsStaff(user(p)) /\ StartsOver(p, "USERS")

\* A stranger becomes a customer, or an administrator when the configuration names the
\* number; a number we know gets the account linked.
Registered(row, n, l, r) ==
    IF row # None THEN [row EXCEPT !.accounts = @ \cup {Telegram}]
    ELSE [role |-> r, blocked |-> FALSE, name |-> n, locale |-> l,
          notify_via |-> Telegram, marketing_consent |-> FALSE, accounts |-> {Telegram}]

handle_shared_contact(p) ==
    /\ serving[p] # None /\ update(p).id = "contact"
    /\ \E n \in Names, l \in Locales, r \in {"CUSTOMER", "ADMIN"} :
          users' = [users EXCEPT ![p] = Registered(@, n, l, r)]
    /\ Finished(p) /\ UNCHANGED <<dialog, screen, late>>

on_close(p) ==
    /\ Tapped(p, "close")
    /\ dialog' = [dialog EXCEPT ![p] = Closed]
    /\ screen' = [screen EXCEPT ![p] = NothingOnIt]
    /\ Finished(p) /\ UNCHANGED <<users, late>>

\* A greeting, an update nobody answers, or a handler that raised.  A start that
\* failed while its first window was drawn has already taken the old dialog away.
Dropped(p) ==
    /\ serving[p] # None /\ Finished(p)
    /\ \/ UNCHANGED <<dialog, screen>>
       \/ /\ update(p).id \in {"/me", "/admin"}
          /\ dialog' = [dialog EXCEPT ![p] = Closed]
          /\ screen' = [screen EXCEPT ![p] = NothingOnIt]
    /\ UNCHANGED <<users, late>>

Handle(p) ==
    \/ Navigate(p) \/ on_rename(p) \/ on_locale_selected(p) \/ on_notify_via_selected(p)
    \/ on_marketing_toggled(p) \/ on_account_unlinked(p) \/ on_user_selected(p)
    \/ on_previous_page(p) \/ on_next_page(p) \/ on_blocked(p) \/ on_unblocked(p)
    \/ on_role_selected(p) \/ handle_me(p) \/ handle_admin(p) \/ handle_shared_contact(p)
    \/ on_close(p) \/ Dropped(p)

Next == \E p \in People : Tap(p) \/ Type(p) \/ Command(p) \/ AuthMiddleware(p) \/ Handle(p)

Spec == Init /\ [][Next]_vars

-----------------------------------------------------------------------------
(* Properties *)

\* After a block at most one more command of the person takes effect: the one whose
\* update was already past the gate.
AtMostOneAfterTheBlock == \A p \in People : late[p] <= 1

\* Consent to marketing changes only when its owner taps the one button for it, and
\* then to the opposite of what was stored; choosing where to be notified sends the
\* consent along and must not bring an older one back.
ConsentIsOnlyToggled ==
    [][\A p \in People :
          users[p] # None /\ users'[p].marketing_consent # users[p].marketing_consent =>
              Served(p) /\ update(p).id = "marketing" /\ serving'[p] = None]_vars
=============================================================================
