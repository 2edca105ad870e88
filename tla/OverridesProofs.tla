--------------------------- MODULE OverridesProofs ---------------------------
(***************************************************************************)
(* Overrides restore what they have replaced, and migration states hold,   *)
(* for every number of contexts and however they overlap.                  *)
(***************************************************************************)
EXTENDS Overrides, SequenceTheorems, TLAPS

\* The URL there was before the i-th of the overrides that are entered.
Below(i) == IF i = 1 THEN Original ELSE UrlOf[stack[i - 1]]

\* The overrides entered are different contexts, and each remembers the URL
\* of the one that was entered before it.
StackInv ==
  /\ \A i \in 1..Len(stack) : stack[i] \in inside
  /\ \A i, j \in 1..Len(stack) : stack[i] = stack[j] => i = j
  /\ \A i \in 1..Len(stack) : before[stack[i]] = [sync |-> Below(i), async |-> Below(i)]

NestInv == ~tangled => StackInv /\ sync = Innermost /\ async = Innermost

IInv == TypeOK /\ NestInv /\ StateHeld

-----------------------------------------------------------------------------
\* The configured URL is one of the URLs, and so is that of every override.
LEMMA UrlsAreUrls == Original \in Url /\ \A c \in Context : UrlOf[c] \in Url
  BY DEF Url

\* Init establishes the invariant: nothing is entered.
LEMMA InitInv == Init => IInv
  <1>. SUFFICES ASSUME Init PROVE IInv
    OBVIOUS
  <1>1. TypeOK
    BY UrlsAreUrls, EmptySeq DEF Init, TypeOK
  <1>2. NestInv
    BY DEF Init, NestInv, StackInv, Innermost
  <1>3. StateHeld
    BY DEF Init, StateHeld
  <1>. QED  BY <1>1, <1>2, <1>3 DEF IInv

\* The sequence of the overrides after one has been entered.
LEMMA Pushed ==
  ASSUME NEW s \in Seq(Context), NEW c \in Context
  PROVE  /\ Append(s, c) \in Seq(Context)
         /\ Len(Append(s, c)) = Len(s) + 1
         /\ Append(s, c)[Len(s) + 1] = c
         /\ \A i \in 1..Len(s) : Append(s, c)[i] = s[i]
  OBVIOUS

\* The sequence of the overrides after the last has been left.
LEMMA Popped ==
  ASSUME NEW s \in Seq(Context), s # <<>>
  PROVE  /\ SubSeq(s, 1, Len(s) - 1) \in Seq(Context)
         /\ Len(SubSeq(s, 1, Len(s) - 1)) = Len(s) - 1
         /\ \A i \in 1..(Len(s) - 1) : SubSeq(s, 1, Len(s) - 1)[i] = s[i]
         /\ Len(s) \in Nat \ {0}
  <1>1. Len(s) \in Nat \ {0}
    BY EmptySeq
  <1>2. ASSUME NEW k \in 0..Len(s)
        PROVE  /\ SubSeq(s, 1, k) \in Seq(Context)
               /\ Len(SubSeq(s, 1, k)) = k
               /\ \A i \in 1..k : SubSeq(s, 1, k)[i] = s[i]
    OBVIOUS
  <1>3. Len(s) - 1 \in 0..Len(s)
    BY <1>1
  <1>. QED  BY <1>1, <1>2, <1>3, Zenon

\* Entering an override puts it on top of those that are entered.
LEMMA EnterStep ==
  ASSUME IInv, NEW c \in Context, Enter(c)
  PROVE  IInv'
  <1>1. TypeOK'
    BY UrlsAreUrls DEF IInv, TypeOK, Enter, Migrated, states
  <1>2. StateHeld'
    BY OverridesAssumption DEF IInv, TypeOK, StateHeld, Enter, Migrated, states
  <1>3. ASSUME ~tangled PROVE StackInv' /\ sync' = Innermost' /\ async' = Innermost'
    <2>1. /\ stack \in Seq(Context) /\ stack' = Append(stack, c)
          /\ Len(stack') = Len(stack) + 1 /\ Len(stack) \in Nat
          /\ stack'[Len(stack) + 1] = c
          /\ \A i \in 1..Len(stack) : stack'[i] = stack[i]
      BY Pushed DEF IInv, TypeOK, Enter
    <2>2. /\ \A i \in 1..Len(stack) : stack[i] \in inside /\ stack[i] # c
          /\ sync = Innermost /\ async = Innermost /\ StackInv
      BY <1>3 DEF IInv, NestInv, StackInv, Enter
    <2>3. ASSUME NEW i, i = Len(stack) + 1 PROVE Below(i)' = Innermost
      <3>1. CASE stack = <<>>
        BY <2>1, <2>3, <3>1, EmptySeq DEF Below, Innermost
      <3>2. CASE stack # <<>>
        <4>1. Len(stack) \in Nat \ {0}
          BY <2>1, <3>2, EmptySeq
        <4>2. stack'[i - 1] = stack[Len(stack)] /\ i # 1
          BY <2>1, <2>3, <4>1
        <4>. QED  BY <3>2, <4>2 DEF Below, Innermost
      <3>. QED  BY <3>1, <3>2
    <2>4. \A i \in 1..Len(stack) : Below(i)' = Below(i)
      BY <2>1 DEF Below
    <2>5. \A i \in 1..Len(stack') : stack'[i] \in inside'
      BY <2>1, <2>2 DEF Enter
    <2>6. \A i, j \in 1..Len(stack') : stack'[i] = stack'[j] => i = j
      BY <2>1, <2>2 DEF StackInv
    <2>7. \A i \in 1..Len(stack') :
            before'[stack'[i]] = [sync |-> Below(i)', async |-> Below(i)']
      <3>. TAKE i \in 1..Len(stack')
      <3>1. CASE i = Len(stack) + 1
        <4>1. Below(i)' = Innermost
          BY <2>3, <3>1
        <4>2. stack'[i] = c /\ before'[c] = [sync |-> sync, async |-> async]
          BY <2>1, <3>1 DEF Enter, IInv, TypeOK
        <4>. QED  BY <2>2, <4>1, <4>2
      <3>2. CASE i \in 1..Len(stack)
        BY <2>1, <2>2, <2>4, <3>2 DEF Enter, IInv, TypeOK, StackInv
      <3>. QED  BY <2>1, <3>1, <3>2
    <2>8. sync' = Innermost' /\ async' = Innermost'
      BY <2>1 DEF Enter, Innermost
    <2>. QED  BY <2>5, <2>6, <2>7, <2>8 DEF StackInv
  <1>. QED
    BY <1>1, <1>2, <1>3 DEF IInv, NestInv, Enter

\* Leaving the last override restores the URL of the one below it; leaving
\* another is what NestInv gives up on.
LEMMA LeaveStep ==
  ASSUME IInv, NEW c \in Context, Leave(c)
  PROVE  IInv'
  <1>1. TypeOK'
    <2>1. stack' \in Seq(Context) /\ tangled' \in BOOLEAN
      <3>1. stack \in Seq(Context) /\ tangled \in BOOLEAN
        BY DEF IInv, TypeOK
      <3>2. <<>> \in Seq(Context)
        BY EmptySeq
      <3>3. CASE stack # <<>> /\ stack[Len(stack)] = c
        BY <3>1, <3>3, Popped DEF Leave
      <3>4. CASE ~(stack # <<>> /\ stack[Len(stack)] = c)
        BY <3>2, <3>4 DEF Leave
      <3>. QED  BY <3>3, <3>4
    <2>. QED  BY <2>1 DEF IInv, TypeOK, Leave, states
  <1>2. StateHeld'
    BY OverridesAssumption DEF IInv, StateHeld, Leave, states
  <1>3. ASSUME ~tangled' PROVE StackInv' /\ sync' = Innermost' /\ async' = Innermost'
    <2>1. /\ ~tangled /\ stack # <<>> /\ stack[Len(stack)] = c
          /\ stack' = SubSeq(stack, 1, Len(stack) - 1)
      BY <1>3 DEF Leave
    <2>2. /\ stack \in Seq(Context) /\ Len(stack) \in Nat \ {0}
          /\ stack' \in Seq(Context) /\ Len(stack') = Len(stack) - 1
          /\ \A i \in 1..Len(stack') : stack'[i] = stack[i]
      BY <2>1, Popped DEF IInv, TypeOK
    <2>3. StackInv
      BY <2>1 DEF IInv, NestInv
    <2>4. \A i \in 1..Len(stack') : stack[i] # c
      BY <2>1, <2>2, <2>3 DEF StackInv
    <2>5. \A i \in 1..Len(stack') : Below(i)' = Below(i)
      BY <2>2 DEF Below
    <2>6. StackInv'
      BY <2>2, <2>3, <2>4, <2>5 DEF StackInv, Leave
    <2>7. before[c] = [sync |-> Below(Len(stack)), async |-> Below(Len(stack))]
      BY <2>1, <2>2, <2>3 DEF StackInv
    <2>8. Below(Len(stack)) = Innermost'
      BY <2>2 DEF Below, Innermost
    <2>. QED  BY <2>6, <2>7, <2>8 DEF Leave
  <1>. QED
    BY <1>1, <1>2, <1>3 DEF IInv, NestInv

\* A migration state touches rows only; what it deletes is accounted for in
\* the states that share it.
LEMMA StateStep ==
  ASSUME IInv, NEW s \in State, EnterState(s) \/ LeaveState(s)
  PROVE  IInv'
  <1>1. UNCHANGED overrides /\ \A c \in Context : c \in inside' <=> c \in inside
    BY OverridesAssumption DEF EnterState, LeaveState
  <1>2. NestInv'
    <2>1. stack \in Seq(Context)
      BY DEF IInv, TypeOK
    <2>2. \A i \in 1..Len(stack) : stack[i] \in Context
      BY <2>1
    <2>3. UNCHANGED <<stack, before, tangled, sync, async>>
      BY <1>1 DEF overrides
    <2>4. \A i : Below(i)' = Below(i)
      BY <2>3 DEF Below
    <2>5. StackInv => StackInv'
      BY <1>1, <2>2, <2>3, <2>4 DEF StackInv
    <2>. QED  BY <2>3, <2>5 DEF IInv, NestInv, Innermost
  <1>3. CASE EnterState(s)
    <2>1. TypeOK'
      BY <1>3, OverridesAssumption DEF IInv, TypeOK, EnterState, overrides
    <2>2. StateHeld'
      BY <1>3, OverridesAssumption DEF IInv, TypeOK, StateHeld, EnterState
    <2>. QED  BY <1>2, <2>1, <2>2 DEF IInv
  <1>4. CASE LeaveState(s)
    <2>1. TypeOK'
      BY <1>4, OverridesAssumption DEF IInv, TypeOK, LeaveState, Deleted, overrides
    <2>2. StateHeld'
      BY <1>4, OverridesAssumption DEF IInv, TypeOK, StateHeld, LeaveState, Deleted, overrides
    <2>. QED  BY <1>2, <2>1, <2>2 DEF IInv
  <1>. QED  BY <1>3, <1>4

\* Every step keeps the invariant.
LEMMA NextInv == IInv /\ [Next]_vars => IInv'
  <1>. SUFFICES ASSUME IInv, [Next]_vars PROVE IInv'
    OBVIOUS
  <1>1. ASSUME NEW c \in Context, EnterFails(c) PROVE IInv'
    BY <1>1, UrlsAreUrls
    DEF EnterFails, Migrated, IInv, TypeOK, NestInv, StackInv, Below, Innermost, StateHeld,
        overrides, states
  <1>2. CASE UNCHANGED vars
    BY <1>2 DEF vars, IInv, TypeOK, NestInv, StackInv, Below, Innermost, StateHeld,
                overrides, states
  <1>. QED  BY <1>1, <1>2, EnterStep, LeaveStep, StateStep DEF Next

\* The inductive invariant holds of every reachable state.
THEOREM Invariance == Spec => []IInv
  BY InitInv, NextInv, PTL DEF Spec

-----------------------------------------------------------------------------
\* Overrides that end in reverse order leave the URL they found, also when
\* migrations fail on the way.
THEOREM OverridesAreNested == Spec => []OverridesNest
  <1>1. IInv => OverridesNest  BY DEF IInv, NestInv, OverridesNest
  <1>. QED  BY <1>1, Invariance, PTL

\* The versions of a migration state stay applied but for those that another
\* one deletes.
THEOREM StatesAreHeld == Spec => []StateHeld
  <1>1. IInv => StateHeld  BY DEF IInv
  <1>. QED  BY <1>1, Invariance, PTL

\* Only a migration state outside of all overrides changes the migration
\* table of the configured database.
THEOREM OriginalIsSpared == Spec => OriginalSpared
  <1>1. ASSUME IInv, [Next]_vars, \A c \in Context : UrlOf[c] # Original,
               rows'[Original] # rows[Original], ~tangled
        PROVE  stack = <<>> /\ \E s \in State : s \in inside' <=> s \notin inside
    <2>1. ASSUME NEW c \in Context PROVE ~Migrated(c) /\ ~Leave(c)
      BY <1>1, <2>1, UrlsAreUrls DEF Migrated, Leave, IInv, TypeOK
    <2>2. PICK s \in State : EnterState(s) \/ LeaveState(s)
      BY <1>1, <2>1 DEF Next, Enter, EnterFails, vars
    <2>3. s \in inside' <=> s \notin inside
      BY <2>2 DEF EnterState, LeaveState
    <2>4. sync = Original
      BY <1>1, <2>2, UrlsAreUrls DEF EnterState, LeaveState, IInv, TypeOK
    <2>5. stack = <<>>
      <3>1. stack # <<>> => stack[Len(stack)] \in Context
        BY <1>1 DEF IInv, TypeOK
      <3>. QED  BY <1>1, <2>4, <3>1 DEF IInv, NestInv, Innermost
    <2>. QED  BY <2>3, <2>5
  <1>2. IInv /\ [Next]_vars => [Spared]_vars
    BY <1>1 DEF Spared
  <1>. QED  BY <1>2, Invariance, PTL DEF Spec, OriginalSpared

=============================================================================
