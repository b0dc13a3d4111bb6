---------------------------- MODULE MCOAuthLogin ----------------------------
(* OAuthLogin with two agents, one of them created later. *)
EXTENDS OAuthLogin

CONSTANTS main, helper

MainThenHelper == <<main, helper>>

=============================================================================
