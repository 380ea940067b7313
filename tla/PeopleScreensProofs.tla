------------------------ MODULE PeopleScreensProofs ------------------------
(***************************************************************************)
(* What a block stops and what may change a consent, proved for any number *)
(* of people, any first table and any number of updates in flight.         *)
(***************************************************************************)
EXTENDS PeopleScreens, TLAPS

\* The table, and what the gate handed to the handlers.
RowsOK ==
    /\ users \in [People -> Row \cup {None}]
    /\ serving \in [People -> Row \cup {None, Stranger}]
    /\ late \in [People -> {0, 1}]

\* Who is past the gate is still in the table, with the consent the gate saw, and has not
\* been late yet; who has been late is blocked, so that the gate lets nothing more of
\* them in.
IInv ==
    /\ RowsOK
    /\ \A p \in People :
          /\ Served(p) => /\ users[p] # None /\ late[p] = 0
                          /\ serving[p].marketing_consent = users[p].marketing_consent
          /\ late[p] = 1 => users[p] # None /\ users[p].blocked

LEMMA InitIInv == Init => IInv
BY PeopleAssumption DEF Init, IInv, RowsOK, Served

\* An update that changes nobody's row.
LEMMA QuietStep ==
  ASSUME IInv, NEW p \in People, UNCHANGED <<users, late>>,
         serving' = serving \/ serving' = [serving EXCEPT ![p] = None]
  PROVE  IInv'
BY DEF IInv, RowsOK, Served

\* A command that committed a change of one row.
LEMMA CommitsStep ==
  ASSUME IInv, NEW p \in People, Served(p), NEW q, q \in People => users[q] # None,
         NEW row \in Row, NEW d, Commits(p, d, [users EXCEPT ![q] = row]),
         q \in People /\ row.marketing_consent # users[q].marketing_consent => q = p
  PROVE  IInv'
<1> DEFINE table == [users EXCEPT ![q] = row]
<1>1. /\ users' = table
      /\ serving' = [serving EXCEPT ![p] = None]
      /\ late' = [x \in People |->
            IF table[x] # None /\ users[x] # None /\ table[x].blocked # users[x].blocked THEN 0
            ELSE IF x = p /\ users[p].blocked THEN late[x] + 1
            ELSE late[x]]
  BY DEF Commits, Shows, Finished
<1>2. /\ table \in [People -> Row \cup {None}]
      /\ \A x \in People : users[x] # None <=> table[x] # None
      /\ \A x \in People : x # p => table[x] = users[x]
                               \/ table[x].marketing_consent = users[x].marketing_consent
  BY PeopleAssumption DEF IInv, RowsOK
<1> HIDE DEF table
<1>3. users[p] # None /\ late[p] = 0
  BY DEF IInv
<1>4. serving' \in [People -> Row \cup {None, Stranger}] /\ ~Served(p)'
  BY <1>1 DEF IInv, RowsOK, Served
<1>5. ASSUME NEW x \in People
      PROVE  /\ late'[x] \in {0, 1}
             /\ Served(x)' => users'[x] # None /\ late'[x] = 0
             /\ Served(x)' => serving'[x].marketing_consent = users'[x].marketing_consent
             /\ late'[x] = 1 => users'[x] # None /\ users'[x].blocked
  <2>1. Served(x)' => x # p /\ Served(x) /\ serving'[x] = serving[x]
    BY <1>1, <1>4 DEF IInv, RowsOK, Served
  <2>0. Served(x)' => serving'[x].marketing_consent = users'[x].marketing_consent
    BY <1>1, <1>2, <2>1 DEF IInv
  <2>2. /\ late[x] \in {0, 1}
        /\ late'[x] = IF table[x] # None /\ users[x] # None
                            /\ table[x].blocked # users[x].blocked THEN 0
                      ELSE IF x = p /\ users[p].blocked THEN late[x] + 1
                      ELSE late[x]
    BY <1>1 DEF IInv, RowsOK
  <2>3. CASE table[x] # None /\ users[x] # None /\ table[x].blocked # users[x].blocked
    BY <1>1, <1>2, <2>0, <2>1, <2>2, <2>3
  <2>4. CASE ~(table[x] # None /\ users[x] # None /\ table[x].blocked # users[x].blocked)
    <3>1. CASE x = p
      BY <1>1, <1>2, <1>3, <2>0, <2>1, <2>2, <2>4, <3>1
    <3>2. CASE x # p
      <4>1. late'[x] = late[x]
        BY <2>2, <2>4, <3>2
      <4>2. late[x] = 1 => users[x] # None /\ users[x].blocked
        BY DEF IInv
      <4>3. Served(x) => users[x] # None /\ late[x] = 0
        BY DEF IInv
      <4> QED BY <1>1, <1>2, <2>0, <2>1, <2>2, <2>4, <4>1, <4>2, <4>3
    <3> QED BY <3>1, <3>2
  <2> QED BY <2>3, <2>4
<1>6. late' \in [People -> {0, 1}]
  BY <1>1, <1>5
<1> QED BY <1>1, <1>2, <1>4, <1>5, <1>6 DEF IInv, RowsOK

-----------------------------------------------------------------------------
(* What each handler does to the table *)

\* A command of p committed one row of somebody who is there, and left the consent in
\* it alone unless p tapped the button for it.
CommitsOneRow(p) ==
    /\ Served(p)
    /\ \E q, row, d :
          /\ row \in Row
          /\ q \in People => users[q] # None
          /\ q \in People /\ row.marketing_consent # users[q].marketing_consent =>
                q = p /\ update(p).id = "marketing"
          /\ Commits(p, d, [users EXCEPT ![q] = row])

WritesNothing(p) ==
    UNCHANGED <<users, late>> /\ serving' = [serving EXCEPT ![p] = None]

\* Who is served is in the table, with a row of the table.
LEMMA ServedRow ==
  ASSUME IInv, NEW p \in People, Served(p)
  PROVE  users[p] # None /\ users[p] \in Row /\ serving[p] \in Row
BY DEF IInv, RowsOK, Served

LEMMA RenameCommits ==
  ASSUME IInv, NEW p \in People, on_rename(p) \/ on_locale_selected(p)
  PROVE  CommitsOneRow(p)
<1>1. Served(p)
  BY DEF on_rename, on_locale_selected, Typed, Tapped
<1>2. users[p] # None /\ users[p] \in Row
  BY <1>1, ServedRow
<1>3. CASE on_rename(p)
  <2> DEFINE row == [users[p] EXCEPT !.name = update(p).item]
  <2>1. update(p).item \in Names /\ Commits(p, Main(p), [users EXCEPT ![p] = row])
    BY <1>3 DEF on_rename
  <2>2. row \in Row /\ row.marketing_consent = users[p].marketing_consent
    BY <1>2, <2>1 DEF Row
  <2> HIDE DEF row
  <2> QED BY <1>1, <1>2, <2>1, <2>2 DEF CommitsOneRow
<1>4. CASE on_locale_selected(p)
  <2> DEFINE row == [users[p] EXCEPT !.locale = update(p).item]
  <2>1. update(p).item \in Locales /\ Commits(p, Main(p), [users EXCEPT ![p] = row])
    BY <1>4 DEF on_locale_selected
  <2>2. row \in Row /\ row.marketing_consent = users[p].marketing_consent
    BY <1>2, <2>1 DEF Row
  <2> HIDE DEF row
  <2> QED BY <1>1, <1>2, <2>1, <2>2 DEF CommitsOneRow
<1> QED BY <1>3, <1>4

\* ChangeNotificationPreferences: the consent that travels is the stored one, unless the
\* button turned it over.
LEMMA PreferencesCommit ==
  ASSUME IInv, NEW p \in People, on_notify_via_selected(p) \/ on_marketing_toggled(p)
  PROVE  CommitsOneRow(p)
<1>1. Served(p)
  BY DEF on_notify_via_selected, on_marketing_toggled, Tapped
<1>2. /\ users[p] # None /\ users[p] \in Row /\ serving[p] \in Row
      /\ serving[p].marketing_consent = users[p].marketing_consent
  BY <1>1, ServedRow DEF IInv
<1>3. PICK via \in Platforms, consent \in BOOLEAN :
        /\ Commits(p, Main(p), Preferences(p, via, consent))
        /\ consent # users[p].marketing_consent => update(p).id = "marketing"
  BY <1>2 DEF on_notify_via_selected, on_marketing_toggled, Tapped, user, Row
<1> DEFINE mid == [users[p] EXCEPT !.notify_via = via]
           row == [mid EXCEPT !.marketing_consent = consent]
<1>4. Preferences(p, via, consent) = [users EXCEPT ![p] = row]
  BY <1>2 DEF Preferences
<1>5. mid \in Row
  BY <1>2, <1>3 DEF Row
<1> HIDE DEF mid
<1>6. row \in Row /\ row.marketing_consent = consent
  BY <1>3, <1>5 DEF Row
<1> HIDE DEF row
<1>7. Commits(p, Main(p), [users EXCEPT ![p] = row])
  BY <1>3, <1>4
<1> QED BY <1>1, <1>2, <1>3, <1>6, <1>7 DEF CommitsOneRow

LEMMA UnlinkCommits ==
  ASSUME IInv, NEW p \in People, on_account_unlinked(p)
  PROVE  CommitsOneRow(p)
<1>1. Served(p)
  BY DEF on_account_unlinked, Tapped
<1>2. users[p] # None /\ users[p] \in Row
  BY <1>1, ServedRow
<1> DEFINE a == update(p).item
<1>3. PICK next \in users[p].accounts \ {a} :
        Commits(p, Main(p), [users EXCEPT ![p] =
          [users[p] EXCEPT !.accounts = @ \ {a}, !.notify_via = IF @ = a THEN next ELSE @]])
  BY DEF on_account_unlinked, Unlinked
<1> DEFINE mid == [users[p] EXCEPT !.accounts = users[p].accounts \ {a}]
           via == IF users[p].notify_via = a THEN next ELSE users[p].notify_via
           row == [mid EXCEPT !.notify_via = via]
<1>4. /\ mid \in Row /\ mid.notify_via = users[p].notify_via
      /\ mid.marketing_consent = users[p].marketing_consent /\ via \in Platforms
  BY <1>2 DEF Row
<1>5. row = [users[p] EXCEPT !.accounts = @ \ {a}, !.notify_via = IF @ = a THEN next ELSE @]
  BY <1>4
<1>6. Commits(p, Main(p), [users EXCEPT ![p] = row])
  BY <1>3, <1>5
<1> HIDE DEF mid, via
<1>7. row \in Row /\ row.marketing_consent = mid.marketing_consent
  BY <1>4 DEF Row
<1> HIDE DEF row
<1> QED BY <1>1, <1>2, <1>4, <1>6, <1>7 DEF CommitsOneRow

LEMMA StaffCommits ==
  ASSUME IInv, NEW p \in People, on_blocked(p) \/ on_unblocked(p) \/ on_role_selected(p)
  PROVE  CommitsOneRow(p)
<1> DEFINE q == dialog[p].user
<1>1. Served(p) /\ users[q] # None
  BY DEF on_blocked, on_unblocked, on_role_selected, Tapped, Typed, MayManage
<1>2. CASE q \in People
  <2>1. users[q] \in Row /\ users[p] \in Row
    BY <1>1, <1>2, ServedRow DEF IInv, RowsOK
  <2>2. CASE on_blocked(p) \/ on_unblocked(p)
    <3>1. PICK b \in BOOLEAN :
            Commits(p, Card(p), [users EXCEPT ![q] = [users[q] EXCEPT !.blocked = b]])
      BY <2>2 DEF on_blocked, on_unblocked
    <3> DEFINE row == [users[q] EXCEPT !.blocked = b]
    <3>2. row \in Row /\ row.marketing_consent = users[q].marketing_consent
      BY <2>1 DEF Row
    <3> HIDE DEF row, q
    <3>3. Commits(p, Card(p), [users EXCEPT ![q] = row])
      BY <3>1 DEF row
    <3> QED BY <1>1, <3>2, <3>3 DEF CommitsOneRow
  <2>3. CASE on_role_selected(p)
    <3> DEFINE r == update(p).item
               row == [users[q] EXCEPT !.role = r]
    <3>1. /\ r \in SUBORDINATE_ROLES(users[p].role)
          /\ Commits(p, Card(p), [users EXCEPT ![q] = row])
      BY <2>3 DEF on_role_selected
    <3>2. r \in Role
      BY <2>1, <3>1 DEF SUBORDINATE_ROLES, Role, Row
    <3>3. row \in Row /\ row.marketing_consent = users[q].marketing_consent
      BY <2>1, <3>2 DEF Row
    <3> HIDE DEF row, q
    <3> QED BY <1>1, <3>1, <3>3 DEF CommitsOneRow
  <2> QED BY <2>2, <2>3
<1>3. CASE q \notin People
  <2>1. PICK d, row : Commits(p, d, [users EXCEPT ![q] = row])
    BY DEF on_blocked, on_unblocked, on_role_selected
  <2>2. users[p] \in Row
    BY <1>1, ServedRow
  <2>3. [users EXCEPT ![q] = row] = [users EXCEPT ![q] = users[p]]
    BY <1>3 DEF IInv, RowsOK
  <2> HIDE DEF q
  <2> QED BY <1>1, <1>3, <2>1, <2>2, <2>3 DEF CommitsOneRow
<1> QED BY <1>2, <1>3

\* Whoever shares a contact is registered, or gets the account linked.
LEMMA RegisteredRow ==
  ASSUME NEW row \in Row \cup {None}, NEW n \in Names, NEW l \in Locales,
         NEW r \in {"CUSTOMER", "ADMIN"}
  PROVE  LET new == Registered(row, n, l, r)
         IN  /\ new \in Row
             /\ row # None => /\ new.blocked = row.blocked
                              /\ new.marketing_consent = row.marketing_consent
<1>1. CASE row = None
  BY <1>1, PeopleAssumption DEF Registered, Row, Role
<1>2. CASE row # None
  <2> DEFINE new == [row EXCEPT !.accounts = row.accounts \cup {Telegram}]
  <2>1. new = Registered(row, n, l, r)
    BY <1>2 DEF Registered
  <2>2. /\ new \in Row /\ new.blocked = row.blocked
        /\ new.marketing_consent = row.marketing_consent
    BY <1>2, PeopleAssumption DEF Row
  <2> QED BY <2>1, <2>2
<1> QED BY <1>1, <1>2

\* The row of whoever shared a contact, and nothing else.
LEMMA ContactWrites ==
  ASSUME IInv, NEW p \in People, handle_shared_contact(p)
  PROVE  /\ users' \in [People -> Row \cup {None}]
         /\ \A x \in People : users[x] # None =>
              /\ users'[x] # None
              /\ users'[x].blocked = users[x].blocked
              /\ users'[x].marketing_consent = users[x].marketing_consent
         /\ late' = late /\ serving' = [serving EXCEPT ![p] = None]
<1>1. PICK n \in Names, l \in Locales, r \in {"CUSTOMER", "ADMIN"} :
        /\ users' = [users EXCEPT ![p] = Registered(users[p], n, l, r)]
        /\ late' = late /\ serving' = [serving EXCEPT ![p] = None]
  BY DEF handle_shared_contact, Finished
<1> DEFINE new == Registered(users[p], n, l, r)
<1>2. /\ new \in Row
      /\ users[p] # None => /\ new.blocked = users[p].blocked
                            /\ new.marketing_consent = users[p].marketing_consent
  BY RegisteredRow DEF IInv, RowsOK
<1> HIDE DEF new
<1>3. users' = [users EXCEPT ![p] = new]
  BY <1>1 DEF new
<1> QED BY <1>1, <1>2, <1>3, PeopleAssumption DEF IInv, RowsOK

LEMMA ContactStep ==
  ASSUME IInv, NEW p \in People, handle_shared_contact(p)
  PROVE  IInv'
<1>1. \A x \in People : Served(x)' => Served(x) /\ serving'[x] = serving[x]
  BY ContactWrites DEF IInv, RowsOK, Served
<1>2. RowsOK'
  BY ContactWrites DEF IInv, RowsOK
<1> QED BY <1>1, <1>2, ContactWrites DEF IInv

LEMMA GateStep ==
  ASSUME IInv, NEW p \in People, AuthMiddleware(p)
  PROVE  IInv'
<1>1. UNCHANGED <<users, late>>
  BY DEF AuthMiddleware
<1>2. CASE serving' = serving
  BY <1>1, <1>2, QuietStep
<1>3. CASE /\ LetsIn(p)
           /\ serving' = [serving EXCEPT ![p] = users[p]]
  <2>1. users[p] # None /\ ~users[p].blocked
    BY <1>3 DEF LetsIn, Known
  <2>2. late[p] = 0
    BY <2>1 DEF IInv, RowsOK
  <2>3. \A x \in People : Served(x)' =>
           (Served(x) /\ serving'[x] = serving[x]) \/ (x = p /\ serving'[x] = users[x])
    BY <1>3 DEF Served, IInv, RowsOK
  <2>4. RowsOK'
    BY <1>1, <1>3 DEF IInv, RowsOK
  <2> QED BY <1>1, <2>1, <2>2, <2>3, <2>4 DEF IInv
<1>4. CASE serving' = [serving EXCEPT ![p] = Stranger]
  <2>1. \A x \in People : Served(x)' => Served(x) /\ serving'[x] = serving[x]
    BY <1>4 DEF Served, IInv, RowsOK
  <2>2. RowsOK'
    BY <1>1, <1>4 DEF IInv, RowsOK
  <2> QED BY <1>1, <2>1, <2>2 DEF IInv
<1> QED BY <1>2, <1>3, <1>4 DEF AuthMiddleware, LetsIn

LEMMA QuietHandlers ==
  ASSUME NEW p \in People,
         \/ Navigate(p) \/ on_user_selected(p) \/ on_previous_page(p) \/ on_next_page(p)
         \/ handle_me(p) \/ handle_admin(p) \/ on_close(p) \/ Dropped(p)
  PROVE  WritesNothing(p)
<1>1. CASE Navigate(p)
  BY <1>1 DEF Navigate, SwitchTo, Shows, Finished, WritesNothing
<1>2. CASE on_user_selected(p) \/ on_previous_page(p) \/ on_next_page(p)
  BY <1>2 DEF on_user_selected, on_previous_page, on_next_page, Shows, Finished,
     WritesNothing
<1>3. CASE handle_me(p) \/ handle_admin(p)
  BY <1>3 DEF handle_me, handle_admin, StartsOver, WritesNothing
<1>4. CASE on_close(p) \/ Dropped(p)
  BY <1>4 DEF on_close, Dropped, Finished, WritesNothing
<1> QED BY <1>1, <1>2, <1>3, <1>4

\* Whatever happens writes nothing, lets somebody in, registers a contact, or commits
\* one row.
LEMMA Steps ==
  ASSUME IInv, [Next]_vars
  PROVE  \/ UNCHANGED <<users, late, serving>>
         \/ \E p \in People :
              WritesNothing(p) \/ AuthMiddleware(p) \/ handle_shared_contact(p)
                \/ CommitsOneRow(p)
<1>1. CASE UNCHANGED vars
  BY <1>1 DEF vars
<1>2. ASSUME NEW p \in People, Tap(p) \/ Type(p) \/ Command(p)
      PROVE  UNCHANGED <<users, late, serving>>
  BY <1>2 DEF Tap, Type, Command, Sends
<1>3. ASSUME NEW p \in People, Handle(p)
      PROVE  WritesNothing(p) \/ handle_shared_contact(p) \/ CommitsOneRow(p)
  BY <1>3, RenameCommits, PreferencesCommit, UnlinkCommits, StaffCommits, QuietHandlers
     DEF Handle
<1> QED BY <1>1, <1>2, <1>3 DEF Next

LEMMA NextIInv == IInv /\ [Next]_vars => IInv'
<1> SUFFICES ASSUME IInv, [Next]_vars PROVE IInv'
  OBVIOUS
<1>1. CASE UNCHANGED <<users, late, serving>>
  BY <1>1 DEF IInv, RowsOK, Served
<1>2. ASSUME NEW p \in People, WritesNothing(p) PROVE IInv'
  BY <1>2, QuietStep DEF WritesNothing
<1>3. ASSUME NEW p \in People, CommitsOneRow(p) PROVE IInv'
  BY <1>3, CommitsStep DEF CommitsOneRow
<1> QED BY <1>1, <1>2, <1>3, GateStep, ContactStep, Steps

LEMMA Invariance == Spec => []IInv
<1> QED BY InitIInv, NextIInv, PTL DEF Spec

\* After a block at most one more command of the person takes effect, however many of
\* their updates were on the way and whoever else is at work.
THEOREM BlockStopsTheNext == Spec => []AtMostOneAfterTheBlock
<1>1. IInv => AtMostOneAfterTheBlock
  BY DEF IInv, RowsOK, AtMostOneAfterTheBlock
<1> QED BY <1>1, Invariance, PTL

\* Consent to marketing changes only by its owner's tap on the button for it.
THEOREM ConsentIsTheirs == Spec => ConsentIsOnlyToggled
<1>1. ASSUME IInv, [Next]_vars, NEW p \in People,
             users[p] # None, users'[p].marketing_consent # users[p].marketing_consent
      PROVE  Served(p) /\ update(p).id = "marketing" /\ serving'[p] = None
  <2>1. CASE users' = users
    BY <1>1, <2>1
  <2>2. ASSUME NEW x \in People, handle_shared_contact(x) PROVE FALSE
    BY <1>1, <2>2, ContactWrites
  <2>3. ASSUME NEW x \in People, CommitsOneRow(x)
        PROVE  Served(p) /\ update(p).id = "marketing" /\ serving'[p] = None
    <3>1. PICK q, row, d :
            /\ row \in Row
            /\ q \in People => users[q] # None
            /\ q \in People /\ row.marketing_consent # users[q].marketing_consent =>
                  q = x /\ update(x).id = "marketing"
            /\ Commits(x, d, [users EXCEPT ![q] = row])
      BY <2>3 DEF CommitsOneRow
    <3>2. users' = [users EXCEPT ![q] = row] /\ serving' = [serving EXCEPT ![x] = None]
      BY <3>1 DEF Commits, Shows, Finished
    <3>3. p = q /\ users'[p] = row
      BY <1>1, <3>2 DEF IInv, RowsOK
    <3>4. p = x /\ update(p).id = "marketing"
      BY <1>1, <3>1, <3>3
    <3> QED BY <1>1, <2>3, <3>2, <3>4 DEF CommitsOneRow, IInv, RowsOK
  <2>4. ASSUME NEW x \in People, WritesNothing(x) \/ AuthMiddleware(x)
        PROVE  users' = users
    BY <2>4 DEF WritesNothing, AuthMiddleware
  <2> QED BY <1>1, <2>1, <2>2, <2>3, <2>4, Steps
<1>2. IInv /\ [Next]_vars =>
        [\A p \in People :
            users[p] # None /\ users'[p].marketing_consent # users[p].marketing_consent =>
                Served(p) /\ update(p).id = "marketing" /\ serving'[p] = None]_vars
  BY <1>1
<1> QED BY <1>2, Invariance, PTL DEF Spec, ConsentIsOnlyToggled
=============================================================================
