------------------------ MODULE AlertNotificationsMC ------------------------
(***************************************************************************)
(* Model values and symmetry for AlertNotifications.                       *)
(***************************************************************************)
EXTENDS AlertNotifications, TLC

CONSTANTS chat, topic, w1, w2

MCRecipients == {chat, topic}
MCWorkers == {w1, w2}
Symmetry == Permutations(MCRecipients) \cup Permutations(MCWorkers)
=============================================================================
