----------------------- MODULE TransactionRetryProofs -----------------------
(***************************************************************************)
(* Proofs about TransactionRetry, for any number of calls, any settings    *)
(* and any environment: what the loop counts, what a commit counts, how    *)
(* long a delay is, and that a loser of conflicts wins in the end.         *)
(***************************************************************************)
EXTENDS TransactionRetry, FiniteSetTheorems, TLAPS

----------------------------------------------------------------------------
(* The exponential.  The provers have no arithmetic of powers: 2^n is the  *)
(* number of the subsets of 1..n, and grows as they do.                    *)
LEMMA PowerOfTwo ==
  ASSUME NEW n \in Nat
  PROVE  /\ 2^n \in Nat
         /\ 1 <= 2^n
         /\ IsFiniteSet(SUBSET (1..n))
         /\ Cardinality(SUBSET (1..n)) = 2^n
<1>1. IsFiniteSet(1..n) /\ Cardinality(1..n) = n
  BY FS_Interval
<1>2. IsFiniteSet(SUBSET (1..n)) /\ Cardinality(SUBSET (1..n)) = 2^n
  BY <1>1, FS_SUBSET
<1>3. {} \in SUBSET (1..n)
  OBVIOUS
<1>4. PICK c : c = Cardinality(SUBSET (1..n))
  OBVIOUS
<1>5. c \in Nat /\ 1 <= c
  BY <1>2, <1>3, <1>4, FS_EmptySet, FS_CardinalityType
<1> QED
  BY <1>2, <1>4, <1>5

LEMMA PowersGrow ==
  ASSUME NEW m \in Nat, NEW n \in Nat, m <= n
  PROVE  2^m <= 2^n
<1>1. SUBSET (1..m) \in SUBSET SUBSET (1..n)
  OBVIOUS
<1>2. IsFiniteSet(SUBSET (1..n)) /\ Cardinality(SUBSET (1..n)) = 2^n
  BY PowerOfTwo
<1>3. Cardinality(SUBSET (1..m)) = 2^m
  BY PowerOfTwo
<1>4. Cardinality(SUBSET (1..m)) <= Cardinality(SUBSET (1..n))
  BY <1>1, <1>2, FS_Subset
<1> QED
  BY <1>2, <1>3, <1>4

(* A delay before the cap grows with the attempt, from the base on.        *)
LEMMA ProductsGrow ==
  ASSUME NEW b \in Nat, NEW x \in Nat, NEW y \in Nat, x <= y
  PROVE  /\ b * x \in Nat
         /\ b * x <= b * y
         /\ 1 <= x => b <= b * x
  OBVIOUS

Setup == options \in [maxRetries : Nat, baseDelayMs : Nat, maxDelayMs : Nat]

LEMMA CappedDelay ==
  ASSUME Setup, NEW a \in Nat
  PROVE  /\ Capped(a) \in Nat
         /\ Capped(a) <= options.maxDelayMs
         /\ Capped(a) >= Smaller(options.baseDelayMs, options.maxDelayMs)
<1>1. 2^a \in Nat /\ 1 <= 2^a
  BY PowerOfTwo
<1>2. options.baseDelayMs \in Nat /\ options.maxDelayMs \in Nat
  BY DEF Setup
<1>3. PICK p : p = options.baseDelayMs * 2^a
  OBVIOUS
<1>4. p \in Nat /\ options.baseDelayMs <= p
  BY <1>1, <1>2, <1>3, ProductsGrow
<1> QED
  BY <1>2, <1>3, <1>4 DEF Capped, Smaller

LEMMA CappedGrows ==
  ASSUME Setup, NEW a \in Nat, NEW c \in Nat, a <= c
  PROVE  Capped(a) <= Capped(c)
<1>1. 2^a \in Nat /\ 2^c \in Nat /\ 2^a <= 2^c
  BY PowerOfTwo, PowersGrow
<1>2. options.baseDelayMs \in Nat
  BY DEF Setup
<1>3. PICK p \in Nat : p = options.baseDelayMs * 2^a
  BY <1>1, <1>2, ProductsGrow
<1>4. PICK q \in Nat : q = options.baseDelayMs * 2^c
  BY <1>1, <1>2, ProductsGrow
<1>5. p <= q
  BY <1>1, <1>2, <1>3, <1>4, ProductsGrow
<1> QED
  BY <1>3, <1>4, <1>5 DEF Setup, Capped, Smaller

(* The jitter adds half of the delay at most.                              *)
LEMMA BackoffBounds ==
  ASSUME Setup, NEW a \in Nat, NEW d \in Backoff(a)
  PROVE  d \in Nat /\ Capped(a) <= d /\ 2 * d <= 3 * Capped(a)
<1>1. PICK c \in Nat : c = Capped(a)
  BY CappedDelay
<1>2. d \in c..(c + c \div 2)
  BY <1>1 DEF Backoff
<1> QED
  BY <1>1, <1>2

----------------------------------------------------------------------------
(* What an action may do to the loop: every step is one of these.          *)
LEMMA Settled ==
  ASSUME NEW raw \in Raw, NEW default \in Nat
  PROVE  Setting(raw, default, 0) \in Nat
  BY RetryRaw DEF Setting

LEMMA CatchCases ==
  ASSUME NEW r \in Runs, NEW e \in Errors, Catches(r, e)
  PROVE  /\ attempt' = attempt
         /\ \/ e = "other" /\ Ends(r, "error")
            \/ e # "other" /\ attempt[r] < options.maxRetries /\ Sleeps(r)
            \/ e # "other" /\ ~(attempt[r] < options.maxRetries) /\ Ends(r, "gave_up")
  BY DEF Catches, Errors, Retryable, Ends, Sleeps

(* Every state is well typed: the settings are those of an environment     *)
(* that getEnvNumber has checked, and every delay is a number that         *)
(* setTimeout takes.                                                       *)
LEMMA TypeInit == RetryInit => RetryTypeOK
<1> SUFFICES ASSUME RetryInit PROVE RetryTypeOK
  OBVIOUS
<1>1. options \in [maxRetries : Nat, baseDelayMs : Nat, maxDelayMs : Nat]
  <2>1. PICK n, b, m \in Raw :
          options = [maxRetries |-> Setting(n, DefaultMaxRetries, 0),
                     baseDelayMs |-> Setting(b, DefaultBaseDelayMs, 0),
                     maxDelayMs |-> Setting(m, DefaultMaxDelayMs, 0)]
    BY DEF RetryInit, Settings
  <2>2. /\ Setting(n, DefaultMaxRetries, 0) \in Nat
        /\ Setting(b, DefaultBaseDelayMs, 0) \in Nat
        /\ Setting(m, DefaultMaxDelayMs, 0) \in Nat
    BY RetryDefaults, Settled
  <2> QED
    BY <2>1, <2>2
<1> QED
  BY <1>1 DEF RetryInit, RetryTypeOK

LEMMA SleepTypes ==
  ASSUME RetryTypeOK, NEW r \in Runs, Sleeps(r)
  PROVE  /\ delay' \in [Runs -> Nat]
         /\ point' \in [Runs -> {"idle", "transaction", "sleep", "done"}]
         /\ UNCHANGED <<attempt, outcome>>
<1>1. PICK d \in Backoff(attempt[r]) : delay' = [delay EXCEPT ![r] = d]
  BY DEF Sleeps
<1>2. d \in Nat
  BY BackoffBounds DEF RetryTypeOK, Setup
<1> QED
  BY <1>1, <1>2 DEF RetryTypeOK, Sleeps

LEMMA CatchTypes ==
  ASSUME RetryTypeOK, NEW r \in Runs, NEW e \in Errors, Catches(r, e)
  PROVE  /\ delay' \in [Runs -> Nat]
         /\ point' \in [Runs -> {"idle", "transaction", "sleep", "done"}]
         /\ outcome' \in [Runs -> {"none", "ok", "gave_up", "error"}]
         /\ UNCHANGED attempt
<1>1. CASE Sleeps(r)
  BY <1>1, SleepTypes DEF RetryTypeOK
<1>2. CASE Ends(r, "error") \/ Ends(r, "gave_up")
  BY <1>2 DEF RetryTypeOK, Ends
<1> QED
  BY <1>1, <1>2, CatchCases

LEMMA TypeStep == RetryTypeOK /\ [RetryNext]_retryVars => RetryTypeOK'
<1> SUFFICES ASSUME RetryTypeOK, [RetryNext]_retryVars PROVE RetryTypeOK'
  OBVIOUS
<1>1. ASSUME NEW r \in Runs, Begin(r) PROVE RetryTypeOK'
  BY <1>1 DEF Begin, RetryTypeOK
<1>2. ASSUME NEW r \in Runs, Commit(r) PROVE RetryTypeOK'
  BY <1>2 DEF Commit, Apply, Ends, RetryTypeOK
<1>3. ASSUME NEW r \in Runs, CommitUnknown(r) PROVE RetryTypeOK'
  <2>1. Catches(r, "other") /\ "other" \in Errors
    BY <1>3 DEF CommitUnknown, Errors
  <2>2. /\ delay' \in [Runs -> Nat]
        /\ point' \in [Runs -> {"idle", "transaction", "sleep", "done"}]
        /\ outcome' \in [Runs -> {"none", "ok", "gave_up", "error"}]
        /\ UNCHANGED attempt
    BY <2>1, CatchTypes
  <2>3. refused' \in [Runs -> BOOLEAN]
    BY <1>3 DEF CommitUnknown, RetryTypeOK
  <2>4. row' \in Nat /\ applied' \in [Runs -> Nat]
    BY <1>3 DEF CommitUnknown, Apply, RetryTypeOK
  <2> QED
    BY <1>3, <2>2, <2>3, <2>4 DEF CommitUnknown, RetryTypeOK
<1>4. ASSUME NEW r \in Runs, Conflict(r) PROVE RetryTypeOK'
  <2>1. Catches(r, "conflict") /\ "conflict" \in Errors
    BY <1>4 DEF Conflict, Errors
  <2>2. /\ delay' \in [Runs -> Nat]
        /\ point' \in [Runs -> {"idle", "transaction", "sleep", "done"}]
        /\ outcome' \in [Runs -> {"none", "ok", "gave_up", "error"}]
        /\ UNCHANGED attempt
    BY <2>1, CatchTypes
  <2> QED
    BY <1>4, <2>2 DEF Conflict, RetryTypeOK
<1>5. ASSUME NEW r \in Runs, Refused(r) PROVE RetryTypeOK'
  <2>1. PICK e \in Errors : Catches(r, e)
    BY <1>5 DEF Refused
  <2>2. /\ delay' \in [Runs -> Nat]
        /\ point' \in [Runs -> {"idle", "transaction", "sleep", "done"}]
        /\ outcome' \in [Runs -> {"none", "ok", "gave_up", "error"}]
        /\ UNCHANGED attempt
    BY <2>1, CatchTypes
  <2> QED
    BY <1>5, <2>2 DEF Refused, RetryTypeOK
<1>6. ASSUME NEW r \in Runs, Wake(r) PROVE RetryTypeOK'
  BY <1>6 DEF Wake, RetryTypeOK
<1>7. CASE UNCHANGED retryVars
  BY <1>7 DEF retryVars, RetryTypeOK
<1> QED
  BY <1>1, <1>2, <1>3, <1>4, <1>5, <1>6, <1>7 DEF RetryNext, Continue, RetryFinished

(* Every reachable state is well typed: no count, delay or version leaves  *)
(* the naturals, whatever the settings are.                                *)
THEOREM TypeCorrect == RetrySpec => []RetryTypeOK
  BY TypeInit, TypeStep, PTL DEF RetrySpec

----------------------------------------------------------------------------
(* The loop: how the attempts, the calls of fn and the commits of a run    *)
(* stand to each other at each point of it.                                *)
Loop(r) ==
  /\ attempt[r] <= options.maxRetries
  /\ tries[r] = IF point[r] = "idle" THEN attempt[r] ELSE attempt[r] + 1
  /\ point[r] # "done" => outcome[r] = "none" /\ applied[r] = 0
  /\ point[r] = "sleep" => attempt[r] < options.maxRetries
  /\ applied[r] <= 1
  /\ outcome[r] = "ok" => applied[r] = 1
  /\ outcome[r] = "gave_up" => applied[r] = 0 /\ attempt[r] = options.maxRetries
                              /\ point[r] = "done"

LoopInv == RetryTypeOK /\ \A r \in Runs : Loop(r)

(* A run moves alone: no action of one touches the loop of another.        *)
LEMMA OthersKeep ==
  ASSUME RetryTypeOK, NEW q \in Runs, Continue(q), NEW r \in Runs, r # q
  PROVE  /\ options' = options
         /\ point'[r] = point[r] /\ attempt'[r] = attempt[r] /\ outcome'[r] = outcome[r]
         /\ applied'[r] = applied[r] /\ tries'[r] = tries[r]
         /\ delay'[r] = delay[r] /\ snapshot'[r] = snapshot[r]
         /\ refused'[r] = refused[r]
<1>1. ASSUME NEW e \in Errors, Catches(q, e)
      PROVE  /\ point'[r] = point[r] /\ attempt'[r] = attempt[r]
             /\ outcome'[r] = outcome[r] /\ delay'[r] = delay[r]
  <2>1. CASE Sleeps(q)
    BY <2>1 DEF Sleeps, RetryTypeOK
  <2>2. CASE Ends(q, "error") \/ Ends(q, "gave_up")
    BY <2>2 DEF Ends, RetryTypeOK
  <2> QED
    BY <1>1, <2>1, <2>2, CatchCases
<1>2. CASE Begin(q)
  BY <1>2 DEF Begin, RetryTypeOK
<1>3. CASE Commit(q)
  BY <1>3 DEF Commit, Apply, Ends, RetryTypeOK
<1>4. CASE CommitUnknown(q)
  <2>1. "other" \in Errors /\ Catches(q, "other")
    BY <1>4 DEF CommitUnknown, Errors
  <2> QED
    BY <1>1, <1>4, <2>1 DEF CommitUnknown, Apply, RetryTypeOK
<1>5. CASE Conflict(q)
  <2>1. "conflict" \in Errors /\ Catches(q, "conflict")
    BY <1>5 DEF Conflict, Errors
  <2> QED
    BY <1>1, <1>5, <2>1 DEF Conflict, RetryTypeOK
<1>6. CASE Refused(q)
  <2>1. PICK e \in Errors : Catches(q, e)
    BY <1>6 DEF Refused
  <2> QED
    BY <1>1, <1>6, <2>1 DEF Refused, RetryTypeOK
<1>7. CASE Wake(q)
  BY <1>7 DEF Wake, RetryTypeOK
<1> QED
  BY <1>2, <1>3, <1>4, <1>5, <1>6, <1>7 DEF Continue

(* What catching an error does to the run that met it.                     *)
LEMMA Caught ==
  ASSUME RetryTypeOK, NEW r \in Runs, NEW e \in Errors, Catches(r, e)
  PROVE  /\ attempt'[r] = attempt[r]
         /\ \/ /\ e = "other"
               /\ point'[r] = "done" /\ outcome'[r] = "error"
            \/ /\ e # "other" /\ attempt[r] < options.maxRetries
               /\ point'[r] = "sleep" /\ outcome'[r] = outcome[r]
            \/ /\ e # "other" /\ ~(attempt[r] < options.maxRetries)
               /\ point'[r] = "done" /\ outcome'[r] = "gave_up"
<1>1. ASSUME Sleeps(r) PROVE point'[r] = "sleep" /\ outcome'[r] = outcome[r]
  BY <1>1 DEF Sleeps, RetryTypeOK
<1>2. ASSUME NEW a, Ends(r, a) PROVE point'[r] = "done" /\ outcome'[r] = a
  BY <1>2 DEF Ends, RetryTypeOK
<1> QED
  BY <1>1, <1>2, CatchCases

LEMMA LoopStep == LoopInv /\ [RetryNext]_retryVars => LoopInv'
<1> SUFFICES ASSUME LoopInv, [RetryNext]_retryVars PROVE LoopInv'
  OBVIOUS
<1>0. RetryTypeOK /\ RetryTypeOK'
  BY TypeStep DEF LoopInv
<1>1. ASSUME NEW q \in Runs, Continue(q), NEW r \in Runs, r # q PROVE Loop(r)'
  <2>1. Loop(r)
    BY DEF LoopInv
  <2> QED
    BY <1>0, <1>1, <2>1, OthersKeep DEF Loop
<1>2. ASSUME NEW r \in Runs, Continue(r) PROVE Loop(r)'
  <2>0. Loop(r) /\ options \in [maxRetries : Nat, baseDelayMs : Nat, maxDelayMs : Nat]
        /\ attempt[r] \in Nat /\ tries[r] \in Nat /\ applied[r] \in Nat
    BY DEF LoopInv, RetryTypeOK
  <2>1. CASE Begin(r)
    BY <1>0, <2>0, <2>1 DEF Begin, Loop, RetryTypeOK
  <2>2. CASE Commit(r)
    BY <1>0, <2>0, <2>2 DEF Commit, Apply, Ends, Loop, RetryTypeOK
  <2>3. CASE CommitUnknown(r)
    <3>1. "other" \in Errors /\ Catches(r, "other")
      BY <2>3 DEF CommitUnknown, Errors
    <3>2. point'[r] = "done" /\ outcome'[r] = "error" /\ attempt'[r] = attempt[r]
      BY <1>0, <3>1, Caught
    <3>3. /\ options' = options /\ tries' = tries /\ point[r] = "transaction"
          /\ applied'[r] = applied[r] + 1
      BY <1>0, <2>3 DEF CommitUnknown, Apply, RetryTypeOK
    <3> QED
      BY <2>0, <3>2, <3>3 DEF Loop
  <2>4. ASSUME point[r] = "transaction", NEW e \in Errors, Catches(r, e),
               UNCHANGED <<options, tries, applied>>
        PROVE  Loop(r)'
    BY <1>0, <2>0, <2>4, Caught DEF Loop
  <2>5. CASE Conflict(r)
    BY <2>4, <2>5 DEF Conflict, Errors
  <2>6. CASE Refused(r)
    BY <2>4, <2>6 DEF Refused
  <2>7. CASE Wake(r)
    BY <1>0, <2>0, <2>7 DEF Wake, Loop, RetryTypeOK
  <2> QED
    BY <1>2, <2>1, <2>2, <2>3, <2>5, <2>6, <2>7 DEF Continue
<1>3. CASE UNCHANGED retryVars
  BY <1>0, <1>3 DEF LoopInv, Loop, retryVars
<1> QED
  BY <1>0, <1>1, <1>2, <1>3 DEF RetryNext, RetryFinished, LoopInv

LEMMA LoopInvariant == RetrySpec => []LoopInv
<1>1. RetryInit => LoopInv
  <2> SUFFICES ASSUME RetryInit PROVE LoopInv
    OBVIOUS
  <2>1. RetryTypeOK
    BY TypeInit
  <2> QED
    BY <2>1 DEF RetryInit, LoopInv, Loop, RetryTypeOK
<1> QED
  BY <1>1, LoopStep, PTL DEF RetrySpec

(* However often fn is run again, its effect is committed at most once,    *)
(* and the caller is in doubt only where an error was thrown.              *)
THEOREM AppliedOnceHolds == RetrySpec => []AppliedOnce
<1>1. LoopInv => AppliedOnce
  BY DEF LoopInv, Loop, AppliedOnce
<1> QED
  BY <1>1, LoopInvariant, PTL

(* fn is called maxRetries + 1 times at most, and exactly so often before  *)
(* the loop gives up.                                                      *)
THEOREM TriesCountedHolds == RetrySpec => []TriesCounted
<1>1. LoopInv => TriesCounted
  BY DEF LoopInv, Loop, TriesCounted, RetryTypeOK
<1> QED
  BY <1>1, LoopInvariant, PTL

----------------------------------------------------------------------------
(* The delays: a run that sleeps sleeps what its attempt was given.        *)
Slept(r) == point[r] = "sleep" => delay[r] \in Backoff(attempt[r])

DelayInv == RetryTypeOK /\ \A r \in Runs : Slept(r)

LEMMA DelayStep == DelayInv /\ [RetryNext]_retryVars => DelayInv'
<1> SUFFICES ASSUME DelayInv, [RetryNext]_retryVars PROVE DelayInv'
  OBVIOUS
<1>0. RetryTypeOK /\ RetryTypeOK'
  BY TypeStep DEF DelayInv
<1>1. ASSUME NEW q \in Runs, Continue(q), NEW r \in Runs, r # q PROVE Slept(r)'
  <2>1. Slept(r)
    BY DEF DelayInv
  <2> QED
    BY <1>0, <1>1, <2>1, OthersKeep DEF Slept, Backoff, Capped
<1>2. ASSUME NEW r \in Runs, Continue(r) PROVE Slept(r)'
  <2>1. ASSUME NEW e \in Errors, Catches(r, e), options' = options PROVE Slept(r)'
    <3>1. CASE Sleeps(r)
      <4>1. PICK d \in Backoff(attempt[r]) : delay' = [delay EXCEPT ![r] = d]
        BY <3>1 DEF Sleeps
      <4>2. delay'[r] = d /\ attempt'[r] = attempt[r]
        BY <1>0, <3>1, <4>1 DEF Sleeps, RetryTypeOK
      <4> QED
        BY <2>1, <4>1, <4>2 DEF Slept, Backoff, Capped
    <3>2. CASE Ends(r, "error") \/ Ends(r, "gave_up")
      BY <1>0, <3>2 DEF Ends, Slept, RetryTypeOK
    <3> QED
      BY <2>1, <3>1, <3>2, CatchCases
  <2>2. CASE Begin(r)
    BY <1>0, <2>2 DEF Begin, Slept, RetryTypeOK
  <2>3. CASE Commit(r)
    BY <1>0, <2>3 DEF Commit, Ends, Slept, RetryTypeOK
  <2>4. CASE CommitUnknown(r)
    BY <2>1, <2>4 DEF CommitUnknown, Errors
  <2>5. CASE Conflict(r)
    BY <2>1, <2>5 DEF Conflict, Errors
  <2>6. CASE Refused(r)
    BY <2>1, <2>6 DEF Refused
  <2>7. CASE Wake(r)
    BY <1>0, <2>7 DEF Wake, Slept, RetryTypeOK
  <2> QED
    BY <1>2, <2>2, <2>3, <2>4, <2>5, <2>6, <2>7 DEF Continue
<1>3. ASSUME UNCHANGED retryVars, NEW r \in Runs PROVE Slept(r)'
  <2>1. Slept(r)
    BY DEF DelayInv
  <2> QED
    BY <1>3, <2>1 DEF Slept, Backoff, Capped, retryVars
<1> QED
  BY <1>0, <1>1, <1>2, <1>3 DEF RetryNext, RetryFinished, DelayInv

(* A delay is never shorter than the base or the cap, and the jitter adds  *)
(* half of the cap at most; an earlier attempt sleeps at most half as long *)
(* again as a later one.                                                   *)
THEOREM DelayBoundsHold == RetrySpec => []DelayBounds
<1>1. RetryInit => DelayInv
  <2> SUFFICES ASSUME RetryInit PROVE DelayInv
    OBVIOUS
  <2>1. RetryTypeOK
    BY TypeInit
  <2> QED
    BY <2>1 DEF RetryInit, DelayInv, Slept, RetryTypeOK
<1>2. DelayInv => DelayBounds
  <2> SUFFICES ASSUME DelayInv, NEW r \in Runs, point[r] = "sleep"
               PROVE  /\ 2 * delay[r] <= 3 * options.maxDelayMs
                      /\ delay[r] >= Smaller(options.baseDelayMs, options.maxDelayMs)
                      /\ \A q \in Runs : point[q] = "sleep" /\ attempt[q] < attempt[r] =>
                                           2 * delay[q] <= 3 * delay[r]
    BY DEF DelayBounds
  <2>1. /\ Setup
        /\ options.maxDelayMs \in Nat /\ options.baseDelayMs \in Nat
        /\ \A q \in Runs : attempt[q] \in Nat
    BY DEF DelayInv, RetryTypeOK, Setup
  <2>2. ASSUME NEW q \in Runs, point[q] = "sleep"
        PROVE  /\ delay[q] \in Nat /\ Capped(attempt[q]) \in Nat
               /\ Capped(attempt[q]) <= delay[q]
               /\ 2 * delay[q] <= 3 * Capped(attempt[q])
    <3>1. delay[q] \in Backoff(attempt[q])
      BY <2>2 DEF DelayInv, Slept
    <3> QED
      BY <2>1, <3>1, BackoffBounds, CappedDelay
  <2>3. PICK c \in Nat : c = Capped(attempt[r])
    BY <2>2
  <2>4. c <= options.maxDelayMs /\ Smaller(options.baseDelayMs, options.maxDelayMs) <= c
    BY <2>1, <2>3, CappedDelay DEF Smaller
  <2>5. delay[r] \in Nat /\ c <= delay[r] /\ 2 * delay[r] <= 3 * c
    BY <2>2, <2>3
  <2>6. ASSUME NEW q \in Runs, point[q] = "sleep", attempt[q] < attempt[r]
        PROVE  2 * delay[q] <= 3 * delay[r]
    <3>1. Capped(attempt[q]) <= c
      BY <2>1, <2>3, <2>6, CappedGrows
    <3>2. /\ delay[q] \in Nat /\ Capped(attempt[q]) \in Nat
          /\ 2 * delay[q] <= 3 * Capped(attempt[q])
      BY <2>2, <2>6
    <3> QED
      BY <2>5, <3>1, <3>2
  <2>7. /\ 2 * delay[r] <= 3 * options.maxDelayMs
        /\ delay[r] >= Smaller(options.baseDelayMs, options.maxDelayMs)
    BY <2>1, <2>4, <2>5 DEF Smaller
  <2> QED
    BY <2>6, <2>7
<1> QED
  BY <1>1, <1>2, DelayStep, PTL DEF RetrySpec

----------------------------------------------------------------------------
(* The database: its version counts the runs that have committed.          *)
Committed == {r \in Runs : applied[r] = 1}

Counted == row = Cardinality(Committed)

(* Each attempt of a run that meets nothing but conflicts is one commit of *)
(* another later than the attempt before it.                               *)
Outrun(r) ==
  ~refused[r] =>
    /\ point[r] = "idle" => attempt[r] <= row
    /\ point[r] = "transaction" => attempt[r] <= snapshot[r] /\ snapshot[r] <= row
    /\ point[r] = "sleep" => attempt[r] + 1 <= row
    /\ outcome[r] = "gave_up" => attempt[r] + 1 <= row
    /\ point[r] = "done" => outcome[r] \in {"ok", "gave_up"}

ConflictInv == LoopInv /\ Counted /\ \A r \in Runs : Outrun(r)

LEMMA CommittedFinite ==
  /\ IsFiniteSet(Committed) /\ Cardinality(Committed) \in Nat
  /\ \A r \in Runs : r \notin Committed =>
                       Cardinality(Committed) <= Cardinality(Runs) - 1
<1>1. IsFiniteSet(Committed) /\ Cardinality(Committed) \in Nat
  BY RetryRuns, FS_Subset, FS_CardinalityType DEF Committed
<1>2. ASSUME NEW r \in Runs, r \notin Committed
      PROVE  Cardinality(Committed) <= Cardinality(Runs) - 1
  <2>1. IsFiniteSet(Runs \ {r}) /\ Cardinality(Runs \ {r}) = Cardinality(Runs) - 1
    BY RetryRuns, FS_RemoveElement
  <2>2. Committed \in SUBSET (Runs \ {r})
    BY <1>2 DEF Committed
  <2> QED
    BY <2>1, <2>2, FS_Subset
<1> QED
  BY <1>1, <1>2

(* A commit counts one run more, and only a commit does.                   *)
LEMMA CountStep == LoopInv /\ Counted /\ [RetryNext]_retryVars => Counted' /\ row <= row'
<1> SUFFICES ASSUME LoopInv, Counted, [RetryNext]_retryVars PROVE Counted' /\ row <= row'
  OBVIOUS
<1>0. RetryTypeOK /\ row \in Nat
  BY DEF LoopInv, RetryTypeOK
<1>1. ASSUME NEW r \in Runs, Apply(r), point[r] = "transaction"
      PROVE  Counted' /\ row <= row'
  <2>1. applied[r] = 0 /\ applied'[r] = 1
    BY <1>0, <1>1 DEF LoopInv, Loop, Apply, RetryTypeOK
  <2>2. Committed' = Committed \cup {r} /\ r \notin Committed
    BY <1>0, <1>1, <2>1 DEF Committed, Apply, RetryTypeOK
  <2>3. Cardinality(Committed \cup {r}) = Cardinality(Committed) + 1
    BY <2>2, CommittedFinite, FS_AddElement
  <2>4. row' = row + 1
    BY <1>1 DEF Apply
  <2> QED
    BY <1>0, <2>2, <2>3, <2>4 DEF Counted
<1>2. CASE UNCHANGED <<row, applied>>
  BY <1>0, <1>2 DEF Counted, Committed
<1>3. ASSUME NEW r \in Runs, Continue(r)
      PROVE  (Apply(r) /\ point[r] = "transaction") \/ UNCHANGED <<row, applied>>
  BY <1>3 DEF Continue, Begin, Commit, CommitUnknown, Conflict, Refused, Wake
<1> QED
  BY <1>1, <1>2, <1>3 DEF RetryNext, RetryFinished, retryVars

LEMMA OutrunStep ==
  ASSUME ConflictInv, [RetryNext]_retryVars, NEW r \in Runs
  PROVE  Outrun(r)'
<1>0. /\ RetryTypeOK /\ RetryTypeOK' /\ Outrun(r) /\ row <= row'
      /\ Loop(r) /\ Loop(r)'
  BY CountStep, LoopStep DEF ConflictInv, LoopInv
<1>n. /\ row \in Nat /\ row' \in Nat /\ attempt[r] \in Nat
      /\ snapshot[r] \in Nat
  BY <1>0 DEF RetryTypeOK
<1>1. ASSUME NEW q \in Runs, Continue(q), r # q PROVE Outrun(r)'
  BY <1>0, <1>n, <1>1, OthersKeep DEF Outrun
<1>2. CASE Begin(r)
  <2>1. /\ point[r] = "idle" /\ point'[r] = "transaction" /\ snapshot'[r] = row
        /\ outcome'[r] = "none"
        /\ UNCHANGED <<row, attempt, refused>>
    BY <1>0, <1>2 DEF Begin, RetryTypeOK, Loop
  <2> QED
    BY <1>0, <1>n, <2>1 DEF Outrun
<1>3. CASE Commit(r)
  <2>1. point'[r] = "done" /\ outcome'[r] = "ok"
    BY <1>0, <1>3 DEF Commit, Ends, RetryTypeOK
  <2> QED
    BY <2>1 DEF Outrun
<1>4. CASE CommitUnknown(r)
  <2>1. refused'[r] = TRUE
    BY <1>0, <1>4 DEF CommitUnknown, RetryTypeOK
  <2> QED
    BY <2>1 DEF Outrun
<1>5. CASE Conflict(r)
  <2>1. /\ point[r] = "transaction" /\ snapshot[r] # row /\ outcome[r] = "none"
        /\ UNCHANGED <<row, refused>>
    BY <1>0, <1>5 DEF Conflict, Loop
  <2>2. /\ attempt'[r] = attempt[r]
        /\ \/ point'[r] = "sleep" /\ outcome'[r] = "none"
           \/ point'[r] = "done" /\ outcome'[r] = "gave_up"
    BY <1>0, <1>5, <2>1, Caught DEF Conflict, Errors
  <2>3. ~refused[r] => attempt[r] + 1 <= row
    BY <1>0, <1>n, <2>1 DEF Outrun
  <2> QED
    BY <2>1, <2>2, <2>3 DEF Outrun
<1>6. CASE Refused(r)
  <2>1. refused'[r] = TRUE
    BY <1>0, <1>6 DEF Refused, RetryTypeOK
  <2> QED
    BY <2>1 DEF Outrun
<1>7. CASE Wake(r)
  <2>1. /\ point[r] = "sleep" /\ point'[r] = "idle" /\ attempt'[r] = attempt[r] + 1
        /\ outcome'[r] = "none" /\ UNCHANGED <<row, refused>>
    BY <1>0, <1>7 DEF Wake, RetryTypeOK, Loop
  <2> QED
    BY <1>0, <1>n, <2>1 DEF Outrun
<1>8. CASE UNCHANGED retryVars
  BY <1>0, <1>8 DEF Outrun, retryVars
<1> QED
  BY <1>1, <1>2, <1>3, <1>4, <1>5, <1>6, <1>7, <1>8 DEF RetryNext, Continue, RetryFinished

LEMMA ConflictInvariant == RetrySpec => []ConflictInv
<1>1. RetryInit => ConflictInv
  <2> SUFFICES ASSUME RetryInit PROVE ConflictInv
    OBVIOUS
  <2>1. RetryTypeOK /\ \A r \in Runs : Loop(r)
    BY TypeInit DEF RetryInit, Loop, RetryTypeOK
  <2>2. Committed = {}
    BY DEF RetryInit, Committed
  <2>3. Counted
    BY <2>2, FS_EmptySet DEF RetryInit, Counted
  <2>4. \A r \in Runs : Outrun(r)
    BY DEF RetryInit, Outrun
  <2> QED
    BY <2>1, <2>3, <2>4 DEF ConflictInv, LoopInv
<1>2. ConflictInv /\ [RetryNext]_retryVars => ConflictInv'
  BY LoopStep, CountStep, OutrunStep DEF ConflictInv
<1> QED
  BY <1>1, <1>2, PTL DEF RetrySpec

(* A conflict is another run's commit: a run that meets nothing but        *)
(* conflicts succeeds when it has as many retries as there are others.     *)
THEOREM ConflictsAreWonHolds == RetrySpec => []ConflictsAreWon
<1>1. ConflictInv => ConflictsAreWon
  <2> SUFFICES ASSUME ConflictInv, NEW r \in Runs,
                      options.maxRetries >= Cardinality(Runs) - 1,
                      point[r] = "done", ~refused[r], outcome[r] # "ok"
               PROVE  FALSE
    BY DEF ConflictsAreWon
  <2>1. Outrun(r) /\ Loop(r) /\ Counted
    BY DEF ConflictInv, LoopInv
  <2>2. outcome[r] = "gave_up" /\ attempt[r] + 1 <= row
    BY <2>1 DEF Outrun
  <2>3. attempt[r] = options.maxRetries /\ r \notin Committed
    BY <2>1, <2>2 DEF Loop, Committed
  <2>4. row <= Cardinality(Runs) - 1
    BY <2>1, <2>3, CommittedFinite DEF Counted
  <2>5. row \in Nat /\ attempt[r] \in Nat /\ Cardinality(Runs) \in Nat
    BY RetryRuns, FS_CardinalityType DEF ConflictInv, LoopInv, RetryTypeOK
  <2> QED
    BY <2>2, <2>3, <2>4, <2>5
<1> QED
  BY <1>1, ConflictInvariant, PTL
=============================================================================
