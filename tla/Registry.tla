------------------------------- MODULE Registry -------------------------------
(***************************************************************************)
(* What a cache of engines promises to requests and to a shutdown: it is a *)
(* table, and each operation on it happens at one instant.  A request that *)
(* wants the item of a place is given the one that is there or, only if    *)
(* there is none, a new one, which is there from that instant on.  A       *)
(* clearing takes out all the items of its places together, and only items *)
(* that were taken out are discarded.                                      *)
(***************************************************************************)

CONSTANTS
  Requester,
  Place,
  Cleared,   \* the places a clearing empties
  Item,
  Nothing,   \* not an item
  Nowhere    \* not a place

VARIABLES
  table,     \* the item in each place
  used,      \* the items there have been
  wants,     \* the place whose item each requester waits for
  given,     \* the item each requester has in its hands
  retired,   \* the items that were taken out
  discarded

registryVars == <<table, used, wants, given, retired, discarded>>

RegistryInit ==
  /\ table = [s \in Place |-> Nothing]
  /\ used = {}
  /\ wants = [r \in Requester |-> Nowhere]
  /\ given = [r \in Requester |-> Nothing]
  /\ retired = {}
  /\ discarded = {}

Want(r) ==
  /\ wants[r] = Nowhere
  /\ given[r] = Nothing
  /\ \E s \in Place : wants' = [wants EXCEPT ![r] = s]
  /\ UNCHANGED <<table, used, given, retired, discarded>>

Find(r) ==
  /\ wants[r] # Nowhere
  /\ table[wants[r]] # Nothing
  /\ given' = [given EXCEPT ![r] = table[wants[r]]]
  /\ wants' = [wants EXCEPT ![r] = Nowhere]
  /\ UNCHANGED <<table, used, retired, discarded>>

Create(r) ==
  /\ wants[r] # Nowhere
  /\ table[wants[r]] = Nothing
  /\ \E i \in Item \ used :
       /\ table' = [table EXCEPT ![wants[r]] = i]
       /\ used' = used \cup {i}
       /\ given' = [given EXCEPT ![r] = i]
  /\ wants' = [wants EXCEPT ![r] = Nowhere]
  /\ UNCHANGED <<retired, discarded>>

\* Only who finds nothing may fail.
Fail(r) ==
  /\ wants[r] # Nowhere
  /\ table[wants[r]] = Nothing
  /\ wants' = [wants EXCEPT ![r] = Nowhere]
  /\ UNCHANGED <<table, used, given, retired, discarded>>

LetGo(r) ==
  /\ given' = [given EXCEPT ![r] = Nothing]
  /\ UNCHANGED <<table, used, wants, retired, discarded>>

Clear ==
  /\ table' = [s \in Place |-> IF s \in Cleared THEN Nothing ELSE table[s]]
  /\ retired' = retired \cup ({table[s] : s \in Cleared} \ {Nothing})
  /\ UNCHANGED <<used, wants, given, discarded>>

Discard(i) ==
  /\ i \in retired
  /\ discarded' = discarded \cup {i}
  /\ UNCHANGED <<table, used, wants, given, retired>>

RegistryNext ==
  \/ \E r \in Requester : Want(r) \/ Find(r) \/ Create(r) \/ Fail(r) \/ LetGo(r)
  \/ Clear
  \/ \E i \in Item : Discard(i)

RegistrySpec == RegistryInit /\ [][RegistryNext]_registryVars

=============================================================================
