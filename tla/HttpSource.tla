----------------------------- MODULE HttpSource -----------------------------
(***************************************************************************)
(* One request of the open-code source, with its retries: get, getOnce,    *)
(* shouldRetry and retryBackoff (src/internal/source/opencode/client.go).  *)
(*                                                                         *)
(* The server, the network and the caller's context are free: an attempt   *)
(* ends in any way, the context is cancelled at any moment.  Time is       *)
(* counted in units of the first backoff without jitter (100 ms), so that  *)
(* the jitter, up to half of the backoff, is in half units: everything is  *)
(* doubled.                                                                *)
(***************************************************************************)
EXTENDS Naturals

CONSTANT Timeout    \* the client's timeout for an attempt, in half units

\* Attempts of one request, the first one included.
maxHTTPAttempts == 3

VARIABLES
  pc,         \* idle, request, backoff, returned
  attempt,    \* the loop variable of get
  cancelled,  \* ctx.Err() # nil
  timer,      \* what is left of the backoff, or of the attempt's timeout
  elapsed,    \* since get was called
  result      \* what get returned

vars == <<pc, attempt, cancelled, timer, elapsed, result>>

\* How an attempt ends.  network stands for refused or broken connections and
\* a body cut short, timeout for the client's own Timeout, cancelled for the
\* context's end while the request is under way.
Statuses == {"ok", "badRequest", "tooManyRequests", "serverError"}

\* A timeout of the client is a context.DeadlineExceeded.
shouldRetry(end) ==
  ~cancelled /\ end \in {"tooManyRequests", "serverError", "network"}

\* Seeded fault: the jitter is as large as the backoff.
retryBackoffWide(n) == 2 ^ n .. 2 * 2 ^ n

\* 2 * 2^(n - 1) half units, and up to half of that.
retryBackoff(n) == 2 ^ n .. 2 ^ n + 2 ^ (n - 1)

Init == /\ pc = "idle"
        /\ attempt = 1
        /\ cancelled = FALSE
        /\ timer = 0
        /\ elapsed = 0
        /\ result = "none"

Cancel == /\ ~cancelled
          /\ cancelled' = TRUE
          /\ UNCHANGED <<pc, attempt, timer, elapsed, result>>

Get == /\ pc = "idle"
       /\ pc' = "request" /\ timer' = Timeout
       /\ UNCHANGED <<attempt, cancelled, elapsed, result>>

Return(r) == pc' = "returned" /\ result' = r /\ timer' = 0

LastAttempt == attempt = maxHTTPAttempts

\* The loop of get after an attempt.
AfterAttempt(end) ==
  /\ pc = "request"
  /\ \/ end = "ok" /\ Return("ok")
     \/ /\ end # "ok"
        /\ ~shouldRetry(end) \/ LastAttempt
        /\ Return("error")
     \/ /\ shouldRetry(end) /\ ~LastAttempt
        /\ pc' = "backoff" /\ timer' \in retryBackoff(attempt)
        /\ UNCHANGED result
  /\ UNCHANGED <<attempt, cancelled, elapsed>>

\* getOnce.  Under a cancelled context Do and ReadAll fail.
AttemptEnds ==
  IF cancelled THEN AfterAttempt("cancelled")
  ELSE \/ \E end \in Statuses \cup {"network"} : AfterAttempt(end)
       \/ timer = 0 /\ AfterAttempt("timeout")

\* One of the branches of the select between ctx.Done() and the timer.
Wakes == timer = 0 \/ cancelled

\* If both are ready the timer may be taken, and the next attempt fails.
BackoffEnds ==
  /\ pc = "backoff" /\ Wakes
  /\ \/ /\ cancelled /\ Return("error")
        /\ UNCHANGED attempt
     \/ /\ timer = 0
        /\ attempt' = attempt + 1
        /\ pc' = "request" /\ timer' = Timeout
        /\ UNCHANGED result
  /\ UNCHANGED <<cancelled, elapsed>>

\* Time passes while the request or the backoff lasts; a cancelled request
\* does not last.
Tick == /\ \/ pc = "request" /\ ~cancelled
           \/ pc = "backoff" /\ ~Wakes
        /\ timer > 0
        /\ timer' = timer - 1
        /\ elapsed' = elapsed + 1
        /\ UNCHANGED <<pc, attempt, cancelled, result>>

Next == Cancel \/ Get \/ AttemptEnds \/ BackoffEnds \/ Tick

Spec == Init /\ [][Next]_vars
-----------------------------------------------------------------------------
(***************************************************************************)
(* Properties.                                                             *)
(***************************************************************************)
\* How long a call may take: the timeouts of all attempts, and between them
\* backoffs that double, each half as long again at most.  It bounds what a
\* worker, and so a round, waits for the server.
TimeIsBounded ==
  elapsed <= maxHTTPAttempts * Timeout + 3 * (2 ^ (maxHTTPAttempts - 1) - 1)
=============================================================================
