----------------------------- MODULE MCAccounts -----------------------------
(* Two managers invite one person and one makes him an account, with two   *)
(* offers they may make and one they may not; he accepts twice at once.    *)
EXTENDS Accounts, TLC

CONSTANTS i1, i2, a3, a4, n3

MCOffers == {[role |-> "Driver", grants |-> {"load"}], [role |-> "Manager", grants |-> {"plan"}],
             [role |-> "Owner", grants |-> {"load", "plan", "pay"}]}
=============================================================================
