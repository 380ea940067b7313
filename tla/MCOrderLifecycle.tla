-------------------------- MODULE MCOrderLifecycle --------------------------
(* Small instances of OrderLifecycle for TLC. *)
EXTENDS OrderLifecycle, TLC
CONSTANTS o1, o2, buyer, manager1, manager2, home, office, late, s1, s2

MCOneOrder      == {o1}
MCTwoOrders     == {o1, o2}
MCBuyerAndStaff == {buyer, manager1, manager2}
MCBuyerAndOne   == {buyer, manager1}
MCStaff         == {manager1, manager2}
MCOneOfStaff    == {manager1}
MCAddresses     == {home, office}
MCReasons       == {late}
MCTwoSessions   == {s1, s2}

\* Neither the orders, nor the sessions, nor the addresses are told apart.
MCSymmetry ==
  Permutations(MCTwoOrders) \cup Permutations(MCTwoSessions)
    \cup Permutations(MCAddresses)
=============================================================================
