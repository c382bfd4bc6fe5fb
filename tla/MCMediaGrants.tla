---------------------------- MODULE MCMediaGrants ----------------------------
(* One user, one path: users and paths meet in nothing but the outbox's order. *)
EXTENDS MediaGrants
============================================================================
