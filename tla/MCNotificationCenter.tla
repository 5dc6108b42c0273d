------------------------ MODULE MCNotificationCenter ------------------------
(* An instance of NotificationCenter for TLC: two accounts that use one     *)
(* browser in turn, a notification for the first.                           *)
EXTENDS NotificationCenter

CONSTANTS alice, bob, e1

MCRecipient == [e \in Event |-> alice]

=============================================================================
