-------------------------------- MODULE Lease --------------------------------
(***************************************************************************)
(* What a migration lock promises: a lease for a limited time.  A holder   *)
(* loses the lease when its time is over or when it has asked to give it   *)
(* up, and in no other way; nobody is granted it before.                   *)
(***************************************************************************)
EXTENDS Integers

CONSTANTS Holder, Nobody, MaxTtl

VARIABLES
  holder,  \* the current holder, or Nobody
  left,    \* the time its lease still has, 0 when there is none
  asked    \* holders, present or past, that have asked for a release

leaseVars == <<holder, left, asked>>

LeaseInit == holder = Nobody /\ left = 0 /\ asked = {}

Grant(h) ==
  /\ holder = Nobody
  /\ holder' = h
  /\ left' \in 1 .. MaxTtl
  /\ UNCHANGED asked

Ask(h) == asked' = asked \cup {h} /\ UNCHANGED <<holder, left>>

Release(h) ==
  /\ holder = h
  /\ h \in asked
  /\ holder' = Nobody /\ left' = 0
  /\ asked' = asked \ {h}

\* A request that comes to nothing: it is lost, or the lease is over.
Drop(h) == asked' = asked \ {h} /\ UNCHANGED <<holder, left>>

Pass ==
  /\ holder # Nobody
  /\ left' = left - 1
  /\ holder' = IF left = 1 THEN Nobody ELSE holder
  /\ UNCHANGED asked

LeaseNext ==
  Pass \/ \E h \in Holder : Grant(h) \/ Ask(h) \/ Release(h) \/ Drop(h)

LeaseSpec == LeaseInit /\ [][LeaseNext]_leaseVars

=============================================================================
