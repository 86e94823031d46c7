---- MODULE MCJobQueue ----
(***************************************************************************)
(* A process and an accidental second one poll the application jobs under  *)
(* the same worker_id (host and pid repeat in containers); the worker of   *)
(* the material jobs has an id of its own.                                 *)
(***************************************************************************)
EXTENDS JobQueue, TLC

CONSTANTS w1, w2, w3

MCKindOf == 1 :> "core" @@ 2 :> "core" @@ 3 :> "material"
MCMaxAttempts == 1 :> 2 @@ 2 :> 1 @@ 3 :> 1
MCHandles == w1 :> {"core"} @@ w2 :> {"core"} @@ w3 :> {"material"}
MCIdOf == w1 :> "host" @@ w2 :> "host" @@ w3 :> "host:materials"

====
