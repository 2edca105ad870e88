------------------------------ MODULE MCLifespan ------------------------------
(***************************************************************************)
(* Lifespan with the keyword arguments each question is about.  Arguments  *)
(* that no action of the question distinguishes keep one value.            *)
(***************************************************************************)
EXTENDS Lifespan

\* Every way to start up and end, at most one optional step in doubt.
SomeOptions ==
  {o \in AllOptions :
     /\ o.target # "default"
     /\ o.allow_in_production => o.mode = "migrate" /\ ~o.only_dev
     /\ o.mode # "migrate" \/ ~o.background => o.readiness = "block"
     /\ o.gate => o.mode = "none" /\ o.target = "named" /\ o.metrics = "on"
     /\ o.warmup = "bad_size" => o.mode = "migrate" /\ o.metrics = "on"
     /\ o.warmup # "off"
     /\ o.metrics # "off" \/ o.mode = "none"}

=============================================================================
