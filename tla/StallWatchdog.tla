--------------------------- MODULE StallWatchdog ---------------------------
(* The watchdog of one HTTP request (src/internal/tableau/transport.go): it   *)
(* ends a request that makes no progress for Timeout, and never one that is   *)
(* slow but steady.  Progress only moves the deadline; the timer is re-armed  *)
(* for what is left when it goes off.  Time passes in ticks, and a timer that *)
(* has gone off runs its callback before the next tick.                       *)
EXTENDS Naturals

CONSTANTS
    StallTimeout,   \* ticks
    BodyParts       \* bound: parts of the request body, and of the response body

ASSUME StallConstants == StallTimeout \in Nat \ {0} /\ BodyParts \in Nat

VARIABLES
    phase,          \* 0 sending the request, 1 awaiting the response, 2 reading it
    left,           \* ticks to the deadline
    alarm,          \* ticks until the timer goes off
    watching,       \* FALSE after stop or after the watchdog fired
    stalled,        \* the phase it fired in, or 3
    exchange,       \* what the request is doing, and the parts left to send and read
    silence         \* ticks since the request last made progress

stallVars == <<phase, left, alarm, watching, stalled, exchange, silence>>

Sending == 0
Awaiting == 1
Reading == 2
NotStalled == 3

StallTypeOK ==
    /\ phase \in Sending .. Reading
    /\ left \in 0 .. StallTimeout
    /\ alarm \in 0 .. StallTimeout
    /\ watching \in BOOLEAN
    /\ stalled \in Sending .. NotStalled
    /\ exchange \in [at : {"sending", "awaiting", "reading", "ended"},
                     toSend : 0 .. BodyParts, toRead : 0 .. BodyParts, redirected : BOOLEAN]
    /\ silence \in 0 .. StallTimeout

(* startStallWatchdog: a request without a body awaits its response at once.  *)
StallInit ==
    /\ exchange \in {[at |-> IF n = 0 THEN "awaiting" ELSE "sending",
                      toSend |-> n, toRead |-> BodyParts, redirected |-> FALSE] : n \in 0 .. BodyParts}
    /\ phase = IF exchange.at = "sending" THEN Sending ELSE Awaiting
    /\ left = StallTimeout
    /\ alarm = StallTimeout
    /\ watching = TRUE
    /\ stalled = NotStalled
    /\ silence = 0

Advances(p) == watching /\ p > phase

(* progress and enter: both restart the window; phases never move backward.   *)
Moved(p) ==
    /\ phase' = IF Advances(p) THEN p ELSE phase
    /\ left' = IF watching THEN StallTimeout ELSE left
    /\ silence' = 0

(* Part of the request body is read for sending; its end starts the wait.     *)
SendPart ==
    /\ exchange.at = "sending"
    /\ exchange' = [exchange EXCEPT !.toSend = @ - 1,
                                    !.at = IF exchange.toSend = 1 THEN "awaiting" ELSE @]
    /\ Moved(IF exchange.toSend = 1 THEN Awaiting ELSE Sending)
    /\ UNCHANGED <<alarm, watching, stalled>>

(* A redirect of the same origin sends the body again.                        *)
Redirect ==
    /\ exchange.at = "awaiting" /\ ~exchange.redirected /\ BodyParts > 0
    /\ exchange' = [exchange EXCEPT !.at = "sending", !.toSend = BodyParts, !.redirected = TRUE]
    /\ UNCHANGED <<phase, left, alarm, watching, stalled, silence>>

(* The headers arrive: entering the last phase restarts the window.           *)
Headers ==
    /\ exchange.at = "awaiting"
    /\ exchange' = [exchange EXCEPT !.at = "reading"]
    /\ Moved(Reading)
    /\ UNCHANGED <<alarm, watching, stalled>>

ReadPart ==
    /\ exchange.at = "reading" /\ exchange.toRead > 0
    /\ exchange' = [exchange EXCEPT !.toRead = @ - 1]
    /\ Moved(Reading)
    /\ UNCHANGED <<alarm, watching, stalled>>

(* The request is over: read to the end, failed, or cancelled by the watchdog *)
(* or the caller.  The deferred stop ends the watch.                          *)
EndRequest ==
    /\ exchange.at # "ended"
    /\ exchange' = [exchange EXCEPT !.at = "ended"]
    /\ watching' = FALSE
    /\ UNCHANGED <<phase, left, alarm, stalled, silence>>

(* Mutant: the timer is not re-armed for the time that is left.               *)
CheckOnce ==
    /\ alarm = 0 /\ watching
    /\ watching' = FALSE /\ stalled' = phase
    /\ UNCHANGED <<phase, left, alarm, exchange, silence>>

(* check: the timer went off.                                                 *)
CheckStall ==
    /\ alarm = 0 /\ watching
    /\ IF left > 0
       THEN alarm' = left /\ UNCHANGED <<watching, stalled>>
       ELSE watching' = FALSE /\ stalled' = phase /\ UNCHANGED alarm
    /\ UNCHANGED <<phase, left, exchange, silence>>

StallTick ==
    /\ exchange.at # "ended" /\ watching /\ alarm > 0
    /\ alarm' = alarm - 1
    /\ left' = IF left = 0 THEN 0 ELSE left - 1
    /\ silence' = IF silence = StallTimeout THEN silence ELSE silence + 1
    /\ UNCHANGED <<phase, watching, stalled, exchange>>

StallNext ==
    SendPart \/ Redirect \/ Headers \/ ReadPart \/ EndRequest \/ CheckStall \/ StallTick

StallSpec == StallInit /\ [][StallNext]_stallVars

-----------------------------------------------------------------------------
(* The watchdog fires exactly when the request has made no progress for the   *)
(* whole timeout: a steady transfer is never cut off, a stalled one always is *)
(* (the wait before a redirected body counts as one silence).                 *)
StallIsReal ==
    /\ []StallTypeOK
    /\ [][stalled' # stalled => silence = StallTimeout]_stallVars
    /\ [][StallTick => silence < StallTimeout]_stallVars
=============================================================================
