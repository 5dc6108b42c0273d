--------------------------- MODULE MCOperationLog ---------------------------
(* An instance of OperationLog for TLC: a requester and a freelancer, and   *)
(* tables that are empty to begin with.                                     *)
EXTENDS OperationLog

CONSTANTS publisher, freelancer

MCRole == [u \in User |-> IF u = publisher THEN "requester" ELSE "freelancer"]

MCSeedRequirement == [r \in RequirementId |-> None]

MCSeedBid == [b \in BidId |-> None]

=============================================================================
