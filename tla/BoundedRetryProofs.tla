------------------------- MODULE BoundedRetryProofs -------------------------
(***************************************************************************)
(* The delay history of the retry discipline, for any set of calls and any *)
(* retry budget.                                                           *)
(***************************************************************************)
EXTENDS BoundedRetry, TLAPS

\* Sleeping once more extends the sequence of the first n delays to n + 1.
LEMMA NextDelay ==
    ASSUME NEW n \in Nat
    PROVE  Append([i \in 1 .. n |-> Delay(i)], Delay(n + 1))
             = [i \in 1 .. n + 1 |-> Delay(i)]
<1> DEFINE S == {Delay(i) : i \in Nat}
           s == [i \in 1 .. n |-> Delay(i)]
           t == [i \in 1 .. n + 1 |-> Delay(i)]
<1>1. s \in Seq(S) /\ t \in Seq(S) /\ Delay(n + 1) \in S
  OBVIOUS
<1>2. Len(s) = n /\ Len(t) = n + 1
  OBVIOUS
<1>3. \A i \in 1 .. n + 1 : Append(s, Delay(n + 1))[i] = t[i]
  BY <1>1, <1>2
<1> QED BY <1>1, <1>2, <1>3

\* A step of one call that sleeps no delay keeps the histories right if the
\* number of delays its place in the loop calls for is the same after it.
LEMMA NoNap ==
    ASSUME TypeOK, NapsMatchAttempts, NEW c \in Calls,
           NEW p, NEW a,
           phase' = [phase EXCEPT ![c] = p], attempt' = [attempt EXCEPT ![c] = a],
           naps' = naps,
           NapsOf(p, a) = NapsOf(phase[c], attempt[c])
    PROVE  NapsMatchAttempts'
<1> SUFFICES ASSUME NEW d \in Calls
             PROVE  naps'[d] = [i \in 1 .. NapsOf(phase[d], attempt[d])' |-> Delay(i)]
  BY DEF NapsMatchAttempts, NapsOf
<1>1. CASE d = c
  BY <1>1 DEF TypeOK, NapsMatchAttempts, NapsOf
<1>2. CASE d # c
  BY <1>2 DEF TypeOK, NapsMatchAttempts, NapsOf
<1> QED BY <1>1, <1>2

\* The retry discipline's invariant, and with it the delay history of every
\* call: whatever the budget, an attempt is preceded by the delays 2, 4, 8, ...
\* of the failures before it and by nothing else.
THEOREM RetrySafety ==
    ASSUME MaxRetries \in Nat \ {0}
    PROVE  Spec => []RetryInv
<1>1. Init => RetryInv
  BY DEF Init, RetryInv, TypeOK, Phase, NapsMatchAttempts, NapsOf
<1>2. RetryInv /\ [Next]_vars => RetryInv'
  <2> SUFFICES ASSUME RetryInv, [Next]_vars PROVE RetryInv'
    OBVIOUS
  <2> USE DEF RetryInv
  <2>1. ASSUME NEW c \in Calls, Start(c) PROVE RetryInv'
    <3>1. NapsOf("trying", 1) = NapsOf(phase[c], attempt[c])
      BY <2>1 DEF Start, NapsOf
    <3>2. NapsMatchAttempts'
      BY <2>1, <3>1, NoNap DEF Start
    <3> QED BY <2>1, <3>2 DEF Start, TypeOK, Phase
  <2>2. ASSUME NEW c \in Calls, Abort(c) PROVE RetryInv'
    <3>1. attempt' = [attempt EXCEPT ![c] = attempt[c]]
      BY <2>2 DEF Abort, TypeOK
    <3>2. NapsMatchAttempts'
      BY <2>2, <3>1, NoNap DEF Abort, NapsOf
    <3> QED BY <2>2, <3>2 DEF Abort, TypeOK, Phase
  <2>3. ASSUME NEW c \in Calls, Succeed(c) PROVE RetryInv'
    <3>1. attempt' = [attempt EXCEPT ![c] = attempt[c]]
      BY <2>3 DEF Succeed, TypeOK
    <3>2. NapsMatchAttempts'
      BY <2>3, <3>1, NoNap DEF Succeed, NapsOf
    <3> QED BY <2>3, <3>2 DEF Succeed, TypeOK, Phase
  <2>4. ASSUME NEW c \in Calls, Fail(c) PROVE RetryInv'
    <3>1. attempt[c] \in 1 .. MaxRetries - 1
      BY <2>4 DEF Fail, TypeOK
    <3>2. naps[c] = [i \in 1 .. attempt[c] - 1 |-> Delay(i)]
      BY <2>4 DEF Fail, NapsMatchAttempts, NapsOf
    <3>3. /\ attempt[c] - 1 \in Nat
          /\ (attempt[c] - 1) + 1 = attempt[c]
      BY <3>1
    <3>4. Append(naps[c], Delay(attempt[c])) = [i \in 1 .. attempt[c] |-> Delay(i)]
      BY <3>2, <3>3, NextDelay
    <3>5. TypeOK'
      <4>1. Delay(attempt[c]) \in Delays
        BY <3>1 DEF Delays
      <4> QED BY <2>4, <4>1 DEF Fail, TypeOK, Phase
    <3>6. ASSUME NEW d \in Calls
          PROVE  naps'[d] = [i \in 1 .. NapsOf(phase[d], attempt[d])' |-> Delay(i)]
      <4>1. CASE d = c
        BY <2>4, <3>4, <4>1 DEF Fail, NapsOf, TypeOK
      <4>2. CASE d # c
        BY <2>4, <4>2 DEF Fail, NapsOf, TypeOK, NapsMatchAttempts
      <4> QED BY <4>1, <4>2
    <3>7. NapsMatchAttempts'
      BY <3>6 DEF NapsMatchAttempts, NapsOf
    <3> QED BY <2>4, <3>1, <3>5, <3>7 DEF Fail, TypeOK
  <2>5. ASSUME NEW c \in Calls, Wake(c) PROVE RetryInv'
    <3>1. NapsOf("trying", attempt[c] + 1) = NapsOf(phase[c], attempt[c])
      BY <2>5 DEF Wake, NapsOf, TypeOK
    <3>2. NapsMatchAttempts'
      BY <2>5, <3>1, NoNap DEF Wake
    <3> QED BY <2>5, <3>2 DEF Wake, TypeOK, Phase
  <2>6. ASSUME NEW c \in Calls, Exhaust(c) PROVE RetryInv'
    <3>1. attempt' = [attempt EXCEPT ![c] = attempt[c]]
      BY <2>6 DEF Exhaust, TypeOK
    <3>2. NapsMatchAttempts'
      BY <2>6, <3>1, NoNap DEF Exhaust, NapsOf
    <3> QED BY <2>6, <3>2 DEF Exhaust, TypeOK, Phase
  <2>7. CASE UNCHANGED vars
    BY <2>7 DEF vars, NapsMatchAttempts, TypeOK, NapsOf
  <2> QED BY <2>1, <2>2, <2>3, <2>4, <2>5, <2>6, <2>7 DEF Next
<1> QED BY <1>1, <1>2, PTL DEF Spec
=============================================================================
