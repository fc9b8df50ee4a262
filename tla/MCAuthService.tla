---------------------------- MODULE MCAuthService ----------------------------
(* Three clients: the first two want one name, the last two give no e-mail. *)
EXTENDS AuthService, TLC

CONSTANTS c1, c2, c3, alice, bob, mail

MCNames  == c1 :> alice @@ c2 :> alice @@ c3 :> bob
MCEmails == c1 :> mail @@ c2 :> NoEmail @@ c3 :> NoEmail
=============================================================================
