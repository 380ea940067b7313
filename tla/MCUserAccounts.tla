--------------------------- MODULE MCUserAccounts ---------------------------
(***************************************************************************)
(* An instance of UserAccounts: two people, two messengers, two requests   *)
(* in flight.  A behaviour tells one of two stories, which is what its     *)
(* requests are about, and alone remembers whether two of its requests     *)
(* have overlapped.                                                        *)
(***************************************************************************)
EXTENDS UserAccounts, TLC

CONSTANTS u1, u2, boss, p2, n1, n2

VARIABLES story, alone

Contacts(phones) ==
  [kind : {"RegisterUser"}, phone_number : phones, full_name : {n1},
   locale : {"ru"}]

\* Staff and customers: one administrator, one manager to be.
StaffCommands ==
  Contacts({boss, p2})
    \cup [kind : {"ChangeUserRole"}, user_id : {u2}, role : Role]
    \cup [kind : {"BlockUser"}, user_id : {u2}, reason : Reasons]
    \cup [kind : {"UnblockUser"}, user_id : {u2}]
    \cup [kind : {"RenameUser"}, user_id : {u2}, full_name : {n2}]

\* A profile edited from two messengers.
ProfileCommands ==
  Contacts({p2})
    \cup [kind : {"RenameUser"}, user_id : {u1}, full_name : {n2}]
    \cup [kind : {"ChangeUserLocale"}, user_id : {u1}, locale : {"en"}]
    \cup [kind : {"ChangeNotificationPreferences"}, user_id : {u1},
          notify_via : Platforms, marketing_consent : {TRUE}]
    \cup [kind : {"UnlinkMessengerAccount"}, user_id : {u1}, platform : Platforms]

MCCommands == StaffCommands \cup ProfileCommands

\* What a request of the story may be.
BelongsTo(q) ==
  \/ story = "staff" /\ q.command \in StaffCommands /\ q.account.platform = "telegram"
  \/ story = "profile" /\ q.command \in ProfileCommands

MCInit == Init /\ story \in {"staff", "profile"} /\ alone = TRUE

MCNext ==
  /\ Next
  /\ \A s \in Sessions : session[s] = None /\ session'[s] # None => BelongsTo(session'[s])
  /\ alone' = (alone /\ OneAtATime')
  /\ UNCHANGED story

MCSpec == MCInit /\ [][MCNext]_<<vars, story, alone>>

Symmetry == Permutations(Sessions) \cup Permutations(ExternalIds)
-----------------------------------------------------------------------------
(* Properties of the behaviours whose requests have not overlapped. *)

\* The start configures administrators and registration watches for them, and
\* nobody falls between the two: whoever owns a configured number is one.
NoGapInSequence == alone => NoGap

\* After any sequence of linking, unlinking and choosing a channel, a person
\* can be reached where their settings say.
ReachableInSequence == alone => NotifyViaIsLinked

\* Only a lost race turns somebody away with their own number: the handler finds
\* the person by account or by number whatever accounts came and went before.
TurnedAwayOnlyByARace == alone => NeverTurnedAway
=============================================================================
