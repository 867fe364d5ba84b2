------------------------------ MODULE MCStartup ------------------------------
(* Startup with the ten tables of the schema and fewer attempts. *)
EXTENDS Startup
=============================================================================
