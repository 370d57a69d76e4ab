---------------------------- MODULE MCForumSync -----------------------------
(* The instance of ForumSync for TLC: three topics on pages of two, one of  *)
(* them unknown to the database, and room for two messages.                 *)
EXTENDS ForumSync

Stamps == [t \in Topics |-> CASE t = "a" -> 1 [] t = "b" -> 2 [] OTHER -> 3]
=============================================================================
