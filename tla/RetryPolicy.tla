---------------------------- MODULE RetryPolicy ----------------------------
(***************************************************************************)
(* The pure rules of deliveries/domain/retry.py: which HTTP results count  *)
(* as a success, which are worth another attempt, and when it is due.      *)
(***************************************************************************)
EXTENDS Integers, Sequences

NoStatus == 0   \* response_status is None: no response line was read

\* is_success
IsSuccess(code) == code # NoStatus /\ code \in 200..299

\* is_retryable; networkError is the code's keyword argument
IsRetryable(code, networkError) ==
    \/ networkError
    \/ code \in {408, 425, 429}
    \/ code # NoStatus /\ code >= 500

\* error_code as execute_delivery sets it; "none" stands for None
ErrorCode == {"none", "network_error", "http_error", "unsafe_destination"}

(***************************************************************************)
(* The pairs (response_status, error_code) one call can produce. A status  *)
(* without an error is a response read to its end; a status next to an     *)
(* error is a response whose body could not be read; a destination is      *)
(* refused before any request is sent.                                     *)
(***************************************************************************)
CallResult(statuses) ==
    {[status |-> s, error |-> "none"] : s \in statuses \ {NoStatus}}
      \cup [status : statuses \cup {NoStatus}, error : {"network_error", "http_error"}]
      \cup {[status |-> NoStatus, error |-> "unsafe_destination"]}

(***************************************************************************)
(* What finalize_delivery makes of a result before it looks at the number  *)
(* of attempts: a success wins over a body that could not be read.         *)
(***************************************************************************)
Verdict(result) ==
    IF IsSuccess(result.status) THEN "success"
    ELSE IF IsRetryable(result.status, result.error \in {"network_error", "http_error"})
         THEN "retryable"
         ELSE "permanent"

-----------------------------------------------------------------------------
(***************************************************************************)
(* The time until the next attempt, in seconds. Ratios are percentages:    *)
(* jitter_ratio = 0.2 is 20, random_value = 0.5 is 50.                     *)
(***************************************************************************)
AtMost(x, limit) == IF x <= limit THEN x ELSE limit
AtLeast(x, limit) == IF x >= limit THEN x ELSE limit

SixHours == 21600
NoRetryAfter == -1      \* None

(***************************************************************************)
(* parse_retry_after: a header that is a number of seconds, a date (in     *)
(* seconds, like now), or missing or unreadable.                           *)
(***************************************************************************)
RetryAfter(header, now) ==
    CASE header.kind = "seconds" -> AtMost(header.value, SixHours)
      [] header.kind = "date" -> AtMost(AtLeast(header.value - now, 0), SixHours)
      [] OTHER -> NoRetryAfter

\* execute_delivery looks at the header of two statuses only
AskedDelay(code, header, now) ==
    IF code \in {429, 503} THEN RetryAfter(header, now) ELSE NoRetryAfter

\* faulty variant of BaseDelay: the attempt number is used as an index from zero
BaseDelayShifted(failed, delays) == delays[AtMost(failed + 1, Len(delays))]

\* the last delay serves for all further attempts
BaseDelay(failed, delays) == delays[AtMost(failed, Len(delays))]

\* the time that is added at random
Jitter(base, ratio, sample) == (base * ratio * sample) \div 10000

\* retry_delay
RetryDelay(failed, delays, ratio, retryAfter, sample) ==
    LET base == BaseDelay(failed, delays)
        jittered == base + Jitter(base, ratio, sample)
    IN  IF retryAfter = NoRetryAfter THEN jittered
        ELSE AtLeast(jittered, AtMost(retryAfter, SixHours))

\* settings.retry_delays_seconds and settings.retry_jitter_ratio
RetryDelays == <<30, 120, 600, 3600, 21600>>
JitterRatio == 20

(***************************************************************************)
(* What a delay has to be for a base, a ratio of jitter and what the       *)
(* receiver asks for.                                                      *)
(***************************************************************************)
DelayIsAsPromised(base, ratio, asked, delay) ==
    /\ base <= delay
    /\ 100 * delay <= AtLeast((100 + ratio) * base, 100 * SixHours)
    /\ asked = NoRetryAfter => 100 * delay <= (100 + ratio) * base
    /\ AtMost(asked, SixHours) <= delay

(***************************************************************************)
(* The retries whose delay is not what PROJECT_SPECIFICATION.md:262-263    *)
(* promises, "30 s, 2 min, 10 min, 1 h, 6 h plus full jitter 0-20%" and    *)
(* "valid Retry-After for 429/503 may increase delay capped 6 h": too      *)
(* short for the schedule or for what was asked, or longer than jitter or  *)
(* six hours allow, for some header and some throw of the dice.            *)
(***************************************************************************)
Promised == <<30, 120, 600, 60 * 60, 6 * 60 * 60>>
Headers == [kind : {"seconds", "date", "missing"}, value : {0, 100, 1000, 25000, 100000}]
Retries ==
    {[failed |-> n, status |-> s, header |-> h, sample |-> x] :
        n \in 1..5, s \in {404, 408, 429, 503}, h \in Headers, x \in 0..100}

DelayIsKept(r) ==
    LET asked == AskedDelay(r.status, r.header, 1000)
    IN  /\ DelayIsAsPromised(Promised[r.failed], 20, asked,
                             RetryDelay(r.failed, RetryDelays, JitterRatio, asked, r.sample))
        /\ asked # NoRetryAfter => r.status \in {429, 503} /\ r.header.kind # "missing"

BrokenPromises == {r \in Retries : ~DelayIsKept(r)}

=============================================================================
