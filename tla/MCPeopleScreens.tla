--------------------------- MODULE MCPeopleScreens ---------------------------
(***************************************************************************)
(* An instance of PeopleScreens.  A behaviour tells one of three stories:  *)
(* an administrator blocks a hasty customer, a stranger registers and is   *)
(* made staff, and one person with two messengers edits the profile.       *)
(***************************************************************************)
EXTENDS PeopleScreens

CONSTANTS MaxMessenger, n1, n2, ru, en

VARIABLE story

Somebody(role, accounts) ==
    [role |-> role, blocked |-> FALSE, name |-> n1, locale |-> ru, notify_via |-> Telegram,
     marketing_consent |-> FALSE, accounts |-> accounts]

Admin == Somebody("ADMIN", {Telegram})
Customer == Somebody("CUSTOMER", {Telegram})
WithTwoAccounts == Somebody("CUSTOMER", {Telegram, MaxMessenger})

\* For each person: the row at first, the commands sent, and the updates in flight.
Stories ==
    { [name |-> "block", row |-> <<Admin, Customer>>,
       sends |-> <<{"/admin"}, {"/me"}>>, taps |-> <<1, 2>>],
      [name |-> "staff", row |-> <<Admin, None>>,
       sends |-> <<{"/admin"}, {"/start", "contact", "/admin"}>>, taps |-> <<1, 1>>],
      [name |-> "profile", row |-> <<WithTwoAccounts, None>>,
       sends |-> <<{"/me", "contact"}, {}>>, taps |-> <<2, 0>>] }

MCFirstTables == {s.row : s \in Stories}
MCOpens == [p \in People |-> UNION {s.sends[p] : s \in Stories}]
MCInFlight == [p \in People |-> 2]

\* Only the profile story tells names and languages apart.
Plainly ==
    /\ \A p \in People : \A i \in DOMAIN queue'[p] : queue'[p][i].item \notin {n2, en}
    /\ users'[2] # None => users'[2].name = n1 /\ users'[2].locale = ru

MCInit == Init /\ story \in {s \in Stories : s.row = users}

MCNext ==
    /\ Next
    /\ \A p \in People :
          /\ Len(queue'[p]) <= story.taps[p]
          /\ \A i \in DOMAIN queue'[p] : queue'[p][i].id \notin MCOpens[p] \ story.sends[p]
    /\ story.name # "profile" => Plainly
    /\ UNCHANGED story

MCSpec == MCInit /\ [][MCNext]_<<vars, story>>
=============================================================================
