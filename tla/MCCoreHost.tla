---- MODULE MCCoreHost ----
(* Bounds for CoreHost; the next-state relation is the module's own. *)
EXTENDS CoreHost
====
