------------------------------ MODULE MCStartup ------------------------------
(* Two releases with a migration each, every environment.                    *)
EXTENDS Startup
=============================================================================
