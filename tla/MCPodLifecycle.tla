----------------------------- MODULE MCPodLifecycle -----------------------------
(***************************************************************************)
(* PodLifecycle on small instances, with the configurations that differ in *)
(* what becomes of them: production behind PgBouncer, with and without a   *)
(* DSN of its own for the migrations, and the ones startup refuses.        *)
(***************************************************************************)
EXTENDS PodLifecycle

Production == [valkey |-> "tls", strict |-> TRUE, databaseUrl |-> TRUE,
               pgVars |-> FALSE, pgTls |-> TRUE, migrationUrl |-> TRUE,
               bouncer |-> TRUE]

MCEnvironments ==
  {Production,
   [Production EXCEPT !.migrationUrl = FALSE],
   [Production EXCEPT !.migrationUrl = FALSE, !.databaseUrl = FALSE, !.pgVars = TRUE],
   [Production EXCEPT !.valkey = "plain"],
   [Production EXCEPT !.databaseUrl = FALSE],
   [Production EXCEPT !.pgTls = FALSE]}
=============================================================================
