----------------------------- MODULE UserStream ------------------------------
(***************************************************************************)
(* The user data stream (live/ws_user_stream.py): one coroutine connects   *)
(* with a listen key, receives, keeps the key alive and gets a new one.    *)
(* Time passes in units of a fraction of the keepalive interval; a unit is *)
(* quiet if some receive in it timed out, and busy if none did.  The       *)
(* exchange forgets a key that is not renewed for Life units, tells so,    *)
(* and refuses connections with it.                                        *)
(***************************************************************************)
EXTENDS Integers

CONSTANTS
    Interval,       \* keepalive_interval_sec, in units
    Life,           \* units until the exchange forgets a key
    MaxFailures     \* bound: calls that fail and connections that break

VARIABLES
    at,         \* where run() is
    expired,    \* _listen_key_expired
    mark,       \* units since _last_keepalive_mono, or Unset
    age,        \* units since the exchange last renewed the key; Life: forgotten
    failures,   \* failures so far
    neglected   \* history: a keepalive or refresh failed, or a unit was busy,
                \* since the last renewal

streamVars == <<at, expired, mark, age, failures, neglected>>

Unset == -1
UpTo(n, bound) == IF n < bound THEN n ELSE bound
Older == age' = UpTo(age + 1, Life)
Later == mark' = IF mark = Unset THEN Unset ELSE UpTo(mark + 1, Interval)

Init ==
    /\ at = "connect"
    /\ expired = FALSE
    /\ mark = 0
    /\ age = 0
    /\ failures = 0
    /\ neglected = FALSE

Fails == failures < MaxFailures /\ failures' = failures + 1

Connect ==
    /\ at = "connect"
    /\ IF age < Life THEN at' = "receive" /\ expired' = FALSE ELSE at' = "broken" /\ UNCHANGED expired
    /\ UNCHANGED <<mark, age, failures, neglected>>

\* The connection cannot be made, or breaks: any exception leaves "async with".
Break ==
    /\ at \in {"connect", "receive"}
    /\ Fails
    /\ at' = "broken"
    /\ UNCHANGED <<expired, mark, age, neglected>>

\* A unit in which messages come all the time.
BusyUnit ==
    /\ at = "receive" /\ ~expired /\ age < Life
    /\ Older /\ Later
    /\ neglected' = TRUE
    /\ UNCHANGED <<at, expired, failures>>

QuietUnit ==
    /\ at = "receive" /\ ~expired /\ age < Life
    /\ Older /\ Later
    /\ at' = "timeout"
    /\ UNCHANGED <<expired, failures, neglected>>

\* The PUT renews the key, unless it fails or the key is forgotten.
Renewed ==
    \/ age < Life /\ age' = 0 /\ neglected' = FALSE /\ UNCHANGED failures
    \/ age < Life /\ Fails /\ neglected' = TRUE /\ UNCHANGED age
    \/ age = Life /\ UNCHANGED <<age, failures, neglected>>

\* Mutant: the interval starts again with every receive that times out.
KeepaliveRestarts ==
    /\ at = "timeout"
    /\ at' = "receive"
    /\ mark' = 0
    /\ IF mark < Interval THEN UNCHANGED <<age, failures, neglected>> ELSE Renewed
    /\ UNCHANGED expired

\* await_keepalive.  The first call after a refresh only starts the interval.
Keepalive ==
    /\ at = "timeout"
    /\ at' = "receive"
    /\ IF mark # Unset /\ mark < Interval
       THEN UNCHANGED <<mark, age, failures, neglected>>
       ELSE /\ mark' = 0
            /\ IF mark = Unset THEN UNCHANGED <<age, failures, neglected>> ELSE Renewed
    /\ UNCHANGED expired

\* The event listenKeyExpired, in handle_raw_message.
Expired ==
    /\ at = "receive" /\ ~expired /\ age = Life
    /\ expired' = TRUE
    /\ UNCHANGED <<at, mark, age, failures, neglected>>

\* await_refresh_listen_key.
Refreshed ==
    \/ age' = 0 /\ mark' = Unset /\ neglected' = FALSE /\ UNCHANGED failures
    \/ Fails /\ neglected' = TRUE /\ UNCHANGED <<age, mark>>

\* A refresh that fails leaves the old key, and the flag is cleared all the same.
Replace ==
    /\ at = "receive" /\ expired
    /\ Refreshed
    /\ expired' = FALSE
    /\ at' = "connect"

\* Mutant: a connection is made again without a new key.
ReconnectSameKey ==
    /\ at = "broken"
    /\ at' = "connect"
    /\ UNCHANGED <<expired, mark, age, failures, neglected>>

\* The handler of an exception: a refresh, and a delay.
Reconnect ==
    /\ at = "broken"
    /\ Refreshed
    /\ at' = "connect"
    /\ UNCHANGED expired

Step == Connect \/ Keepalive \/ Expired \/ Replace \/ Reconnect
Next == Step \/ Break \/ BusyUnit \/ QuietUnit

Spec == Init /\ [][Next]_streamVars

\* The coroutine goes on, and the exchange sends its event.
Fairness == WF_streamVars(Step)
FairSpec == Spec /\ Fairness

-----------------------------------------------------------------------------
TypeOK ==
    /\ at \in {"connect", "receive", "timeout", "broken"}
    /\ expired \in BOOLEAN /\ neglected \in BOOLEAN
    /\ mark \in {Unset} \union (0..Interval) /\ age \in 0..Life
    /\ failures \in 0..MaxFailures

\* A key is forgotten only after a failed call, or in a unit in which the
\* stream was too busy to time out: with neither, every key is renewed in time,
\* also the one that a refresh has just brought and whose first timeout renews
\* nothing.
QuietKeysLive == age = Life => neglected

\* The stream comes back: whatever expires, breaks or fails, it listens with a
\* key that the exchange knows in the end.
ListensAgain == (at # "receive" \/ age = Life) ~> (at = "receive" /\ age < Life)
=============================================================================
