------------------------------ MODULE RequestWindow ------------------------------
(***************************************************************************)
(* The requests of one credential for one office under one policy, as a      *)
(* process counts them in a sliding window (consume, status).                *)
(*                                                                          *)
(* The middleware runs in one thread, the event loop: it reads the limit and *)
(* then counts the request.  A limit is set, and the status is asked for, in *)
(* other threads, so that either may come between, and the status is counted *)
(* with a time taken before the lock is had.                                 *)
(***************************************************************************)
EXTENDS Integers, Sequences, FiniteSetsExt

CONSTANTS
  Nothing,       \* no request, no question, no answer
  WindowLimits,  \* limits that may apply
  SecondLength,  \* ticks of a second
  WindowSeconds, \* 60
  LastMoment     \* bound: the clock

ASSUME RequestWindowAssumption ==
  /\ WindowLimits \subseteq Nat \ {0} /\ {SecondLength, WindowSeconds} \subseteq Nat \ {0}
  /\ LastMoment \in Nat

VARIABLES
  moment,    \* time.monotonic(), in ticks
  windowLimit,
  stamps,    \* the deque: times of requests
  request,   \* the limit a request was judged by, between the two steps, or Nothing
  question,  \* the time and the limit of a question for the status, or Nothing
  refusal,   \* history: a refusal after which nothing was let through yet, or Nothing
  told,      \* the last status
  admitted   \* history: the times of what was let through in the window that ended with
             \* the last of these, and the limit this was judged by

windowVars == <<moment, windowLimit, stamps, request, question, refusal, told, admitted>>

Window == SecondLength * WindowSeconds

RequestWindowInit ==
  /\ moment = 0 /\ windowLimit \in WindowLimits
  /\ stamps = <<>> /\ admitted = [times |-> <<>>, limit |-> windowLimit]
  /\ request = Nothing /\ question = Nothing /\ refusal = Nothing /\ told = Nothing

MomentPasses ==
  /\ moment < LastMoment /\ moment' = moment + 1
  /\ UNCHANGED <<windowLimit, stamps, request, question, refusal, told, admitted>>

\* set, remove, or a refresh
LimitChanges ==
  /\ windowLimit' \in WindowLimits \ {windowLimit}
  /\ UNCHANGED <<moment, stamps, request, question, refusal, told, admitted>>

\* The times from the first that is later than t.
From(times, t) ==
  SubSeq(times, Min({i \in 1..(Len(times) + 1) : i = Len(times) + 1 \/ times[i] > t}), Len(times))

\* What came exactly a window ago is still there (mutant).
KeptOneMore(times, now) == From(times, now - Window - 1)
\* Counted in whole minutes (mutant).
KeptOfMinute(times, now) == From(times, Window * (now \div Window) - 1)

\* while timestamps and timestamps[0] <= now - 60: popleft
Kept(times, now) == From(times, now - Window)

SecondsUntil(t, now) == (t - now + SecondLength - 1) \div SecondLength

(***************************************************************************)
(* A request                                                                *)
(***************************************************************************)
RequestComes ==
  /\ request = Nothing /\ request' = windowLimit
  /\ UNCHANGED <<moment, windowLimit, stamps, question, refusal, told, admitted>>

Admit ==
  /\ request /= Nothing /\ Len(Kept(stamps, moment)) < request
  /\ stamps' = Append(Kept(stamps, moment), moment)
  /\ admitted' = [times |-> Append(From(admitted.times, moment - Window), moment), limit |-> request]
  /\ request' = Nothing /\ refusal' = Nothing
  /\ UNCHANGED <<moment, windowLimit, question, told>>

\* 429, with Retry-After
Refuse ==
  /\ request /= Nothing
  /\ LET kept == Kept(stamps, moment)
     IN /\ Len(kept) >= request
        /\ stamps' = kept
        /\ refusal' = [limit |-> request, used |-> Len(kept),
                       until |-> moment + SecondLength * SecondsUntil(kept[1] + Window, moment)]
  /\ request' = Nothing
  /\ UNCHANGED <<moment, windowLimit, question, told, admitted>>

(***************************************************************************)
(* The status, which the page of a script asks for before a run             *)
(***************************************************************************)
StatusAsked ==
  /\ question = Nothing /\ question' = [at |-> moment, limit |-> windowLimit] /\ told' = Nothing
  /\ UNCHANGED <<moment, windowLimit, stamps, request, refusal, admitted>>

\* The requests that came since the question are not counted (mutant).
StatusOfThen ==
  /\ question /= Nothing
  /\ LET used == Len(Kept(stamps, question.at)) - Len(From(stamps, question.at))
     IN told' = [limit |-> question.limit,
                 remaining |-> IF used < question.limit THEN question.limit - used ELSE 0,
                 room |-> question.limit - Len(Kept(stamps, moment))]
  /\ stamps' = Kept(stamps, question.at)
  /\ question' = Nothing
  /\ UNCHANGED <<moment, windowLimit, request, refusal, admitted>>

\* room: history, what a request would find at this moment.
StatusAnswered ==
  /\ question /= Nothing
  /\ LET used == Len(Kept(stamps, question.at))
     IN told' = [limit |-> question.limit,
                 remaining |-> IF used < question.limit THEN question.limit - used ELSE 0,
                 room |-> question.limit - Len(Kept(stamps, moment))]
  /\ stamps' = Kept(stamps, question.at)
  /\ question' = Nothing
  /\ UNCHANGED <<moment, windowLimit, request, refusal, admitted>>

RequestWindowNext ==
  \/ MomentPasses \/ LimitChanges \/ RequestComes \/ Admit \/ Refuse \/ StatusAsked \/ StatusAnswered

RequestWindowSpec == RequestWindowInit /\ [][RequestWindowNext]_windowVars

(***************************************************************************)
(* Properties                                                               *)
(***************************************************************************)
WindowTypeOK ==
  /\ moment \in 0..LastMoment /\ windowLimit \in WindowLimits
  /\ request \in WindowLimits \cup {Nothing}
  /\ \A i \in DOMAIN stamps : stamps[i] \in 0..moment /\ (i > 1 => stamps[i - 1] <= stamps[i])
  /\ told /= Nothing => told.remaining \in 0..told.limit

\* However the limit changes and the status is asked for, no window that ends with an
\* admitted request has more of them than the limit it was judged by.
WindowHolds == Len(admitted.times) <= admitted.limit

\* A client that waits for the time of Retry-After, alone and with the limit not
\* lowered, is let through, and would not be a second earlier.  (After the limit was
\* lowered below what is used, the time told is too short.)
RetryAfterHolds ==
  refusal /= Nothing /\ refusal.used = refusal.limit =>
    LET used == Len(Kept(stamps, moment))
    IN /\ moment >= refusal.until /\ windowLimit >= refusal.limit => used < windowLimit
       /\ moment + SecondLength <= refusal.until => used = refusal.limit

\* A status never tells of more requests than there is room for, although it is
\* reckoned from an earlier time.
StatusNotTooMany == told /= Nothing => told.remaining <= (IF told.room > 0 THEN told.room ELSE 0)
=============================================================================
