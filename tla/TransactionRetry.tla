-------------------------- MODULE TransactionRetry --------------------------
(***************************************************************************)
(* TransactionPrismaService: serializable transactions that are run again  *)
(* when the database refuses them, with exponential backoff and jitter.    *)
(*                                                                         *)
(* The database is one row with a version.  A transaction takes a snapshot *)
(* when it begins; its commit is refused if another one has committed      *)
(* since (40001, P2034).                                                   *)
(***************************************************************************)
EXTENDS Integers, FiniteSets

CONSTANTS
  Runs,        \* calls of run(fn)
  Raw,         \* what an environment variable may hold
  DefaultMaxRetries, DefaultBaseDelayMs, DefaultMaxDelayMs

ASSUME RetryDefaults ==
  {DefaultMaxRetries, DefaultBaseDelayMs, DefaultMaxDelayMs} \subseteq Nat

(* As many calls as there are, they are finitely many.                     *)
ASSUME RetryRuns == IsFiniteSet(Runs)

(* Raw values: not set, not a number for parseInt, or a number.            *)
ASSUME RetryRaw == Raw \subseteq [kind : {"unset", "nan", "number"}, value : Int]

VARIABLES
  options,   \* maxRetries, baseDelayMs and maxDelayMs, read at construction
  row,       \* the version of the row
  point, attempt, snapshot,
  delay,     \* delay[r]: what r sleeps before its next attempt
  outcome,
  applied,   \* history: applied[r], the commits of r that took effect
  tries,     \* history: tries[r], how often fn was called for r
  refused    \* history: refused[r], r has met an error other than a conflict

retryVars == <<options, row, point, attempt, snapshot, delay, outcome, applied,
               tries, refused>>

----------------------------------------------------------------------------
(* Mutant: the minimum of a setting is not checked.                        *)
SettingUnchecked(raw, default, min) ==
  IF raw.kind = "number" THEN raw.value ELSE default

(* getEnvNumber.                                                           *)
Setting(raw, default, min) ==
  IF raw.kind = "number" /\ raw.value >= min THEN raw.value ELSE default

Settings ==
  {[maxRetries |-> Setting(n, DefaultMaxRetries, 0),
    baseDelayMs |-> Setting(b, DefaultBaseDelayMs, 0),
    maxDelayMs |-> Setting(m, DefaultMaxDelayMs, 0)] : n, b, m \in Raw}

Smaller(a, b) == IF a <= b THEN a ELSE b

Capped(a) == Smaller(options.baseDelayMs * 2^a, options.maxDelayMs)

(* calculateBackoffDelay: the delays that its jitter can give.             *)
Backoff(a) == Capped(a)..(Capped(a) + Capped(a) \div 2)

(* isRetryableError.  "foreign_key" is P2003, which the code retries;      *)
(* "other" is any error that it does not, a lost connection among them.    *)
Errors == {"conflict", "deadlock", "foreign_key", "other"}

(* Mutant: whatever the error is, the transaction is run again.            *)
RetryableAlways(e) == e \in Errors

Retryable(e) == e \in {"conflict", "deadlock", "foreign_key"}

RetryInit ==
  /\ options \in Settings
  /\ row = 0
  /\ point = [r \in Runs |-> "idle"]
  /\ attempt = [r \in Runs |-> 0]
  /\ snapshot = [r \in Runs |-> 0]
  /\ delay = [r \in Runs |-> 0]
  /\ outcome = [r \in Runs |-> "none"]
  /\ applied = [r \in Runs |-> 0]
  /\ tries = [r \in Runs |-> 0]
  /\ refused = [r \in Runs |-> FALSE]

Ends(r, a) ==
  /\ point' = [point EXCEPT ![r] = "done"]
  /\ outcome' = [outcome EXCEPT ![r] = a]
  /\ UNCHANGED <<attempt, delay>>

Sleeps(r) ==
  /\ \E d \in Backoff(attempt[r]) : delay' = [delay EXCEPT ![r] = d]
  /\ point' = [point EXCEPT ![r] = "sleep"]
  /\ UNCHANGED <<attempt, outcome>>

(* Mutant: the last retry is not made.                                     *)
CatchesEarly(r, e) ==
  IF ~Retryable(e) THEN Ends(r, "error")
  ELSE IF attempt[r] + 1 < options.maxRetries THEN Sleeps(r) ELSE Ends(r, "gave_up")

(* Mutant: one retry more than maxRetries.                                 *)
CatchesLate(r, e) ==
  IF ~Retryable(e) THEN Ends(r, "error")
  ELSE IF attempt[r] <= options.maxRetries THEN Sleeps(r) ELSE Ends(r, "gave_up")

(* The catch block, and the end of the loop after the last attempt.        *)
Catches(r, e) ==
  IF ~Retryable(e) THEN Ends(r, "error")
  ELSE IF attempt[r] < options.maxRetries THEN Sleeps(r) ELSE Ends(r, "gave_up")

----------------------------------------------------------------------------
(* prisma.$transaction: the transaction begins, and fn runs in it.         *)
Begin(r) ==
  /\ point[r] = "idle"
  /\ snapshot' = [snapshot EXCEPT ![r] = row]
  /\ tries' = [tries EXCEPT ![r] = @ + 1]
  /\ point' = [point EXCEPT ![r] = "transaction"]
  /\ UNCHANGED <<options, row, attempt, delay, outcome, applied, refused>>

Apply(r) ==
  /\ snapshot[r] = row
  /\ row' = row + 1
  /\ applied' = [applied EXCEPT ![r] = @ + 1]

Commit(r) ==
  /\ point[r] = "transaction"
  /\ Apply(r)
  /\ Ends(r, "ok")
  /\ UNCHANGED <<options, snapshot, tries, refused>>

(* The commit took effect, and its acknowledgement was lost.               *)
CommitUnknown(r) ==
  /\ point[r] = "transaction"
  /\ Apply(r)
  /\ Catches(r, "other")
  /\ refused' = [refused EXCEPT ![r] = TRUE]
  /\ UNCHANGED <<options, snapshot, tries>>

Conflict(r) ==
  /\ point[r] = "transaction"
  /\ snapshot[r] # row
  /\ Catches(r, "conflict")
  /\ UNCHANGED <<options, row, snapshot, applied, tries, refused>>

(* Any other error: a deadlock, a foreign key, fn itself, a timeout.       *)
Refused(r) ==
  /\ point[r] = "transaction"
  /\ \E e \in Errors \ {"conflict"} : Catches(r, e)
  /\ refused' = [refused EXCEPT ![r] = TRUE]
  /\ UNCHANGED <<options, row, snapshot, applied, tries>>

(* The timer fires, and the loop goes on.                                  *)
Wake(r) ==
  /\ point[r] = "sleep"
  /\ attempt' = [attempt EXCEPT ![r] = @ + 1]
  /\ delay' = [delay EXCEPT ![r] = 0]
  /\ point' = [point EXCEPT ![r] = "idle"]
  /\ UNCHANGED <<options, row, snapshot, outcome, applied, tries, refused>>

RetryFinished ==
  /\ \A r \in Runs : point[r] = "done"
  /\ UNCHANGED retryVars

Continue(r) ==
  \/ Begin(r)
  \/ Commit(r)
  \/ CommitUnknown(r)
  \/ Conflict(r)
  \/ Refused(r)
  \/ Wake(r)

RetryNext == (\E r \in Runs : Continue(r)) \/ RetryFinished

RetrySpec == RetryInit /\ [][RetryNext]_retryVars

----------------------------------------------------------------------------
RetryTypeOK ==
  /\ options \in [maxRetries : Nat, baseDelayMs : Nat, maxDelayMs : Nat]
  /\ row \in Nat
  /\ point \in [Runs -> {"idle", "transaction", "sleep", "done"}]
  /\ attempt \in [Runs -> Nat]
  /\ snapshot \in [Runs -> Nat]
  /\ delay \in [Runs -> Nat]
  /\ outcome \in [Runs -> {"none", "ok", "gave_up", "error"}]
  /\ applied \in [Runs -> Nat]
  /\ tries \in [Runs -> Nat]
  /\ refused \in [Runs -> BOOLEAN]

(* However often fn is run again, its effect is committed at most once: a  *)
(* run that was answered is committed, one that gave up is not, and only a *)
(* thrown error leaves the caller in doubt.                                *)
AppliedOnce ==
  \A r \in Runs : /\ applied[r] <= 1
                  /\ outcome[r] = "ok" => applied[r] = 1
                  /\ outcome[r] = "gave_up" => applied[r] = 0

(* fn is called maxRetries + 1 times at most, and exactly so often before  *)
(* the loop gives up.                                                      *)
TriesCounted ==
  \A r \in Runs : /\ tries[r] <= options.maxRetries + 1
                  /\ outcome[r] = "gave_up" => tries[r] = options.maxRetries + 1

(* "Max delay cap for backoff (ms)": no transaction sleeps longer than     *)
(* TRANSACTION_MAX_DELAY_MS.                                               *)
DelayCapped ==
  \A r \in Runs : point[r] = "sleep" => delay[r] <= options.maxDelayMs

(* What calculateBackoffDelay keeps to instead: a delay is never shorter   *)
(* than the capped exponential one, grows with the attempt up to the cap,  *)
(* and the jitter, added after the cap, adds half of it at most.           *)
DelayBounds ==
  \A r \in Runs :
    point[r] = "sleep" =>
      /\ 2 * delay[r] <= 3 * options.maxDelayMs
      /\ delay[r] >= Smaller(options.baseDelayMs, options.maxDelayMs)
      /\ \A q \in Runs : point[q] = "sleep" /\ attempt[q] < attempt[r] =>
                           2 * delay[q] <= 3 * delay[r]

(* A conflict is another run's commit: a run that meets nothing but        *)
(* conflicts succeeds when it has as many retries as there are others.     *)
ConflictsAreWon ==
  \A r \in Runs :
    /\ options.maxRetries >= Cardinality(Runs) - 1
    /\ point[r] = "done" /\ ~refused[r]
    => outcome[r] = "ok"
=============================================================================
