-------------------------- MODULE MCSessionManager --------------------------
(* SessionManager on a small instance: two connections and a third for a second
   rebuild, two tabs, one call of the UI in flight.                             *)
EXTENDS SessionManager
=============================================================================
