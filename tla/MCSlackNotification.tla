------------------------ MODULE MCSlackNotification ------------------------
(***************************************************************************)
(* An instance of SlackNotification.                                       *)
(***************************************************************************)
EXTENDS SlackNotification
=============================================================================
