----------------------------- MODULE MCAccounts -----------------------------
(* An instance of Accounts for TLC: two demo users, of which the second is  *)
(* the administrator, and one more name.                                    *)
EXTENDS Accounts, TLC

CONSTANTS user, admin

MCSeedName == <<user, admin>>

=============================================================================
