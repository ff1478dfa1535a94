---------------------------- MODULE RequestProofs ----------------------------
(* Proofs about the requests of one command: the watchdog that ends a stalled *)
(* one (StallWatchdog) and the renewal of the session that they share         *)
(* (SessionRenewal), for any timeout, any number of requests and of tokens;   *)
(* and about the processes that wait for jobs (JobMonitor).                   *)
EXTENDS StallWatchdog, SessionRenewal, JobMonitor, TLAPS

USE StallConstants, RenewalConstants

-----------------------------------------------------------------------------
(* StallWatchdog.                                                             *)

(* The time left to the deadline and the silence so far make up the timeout,  *)
(* the timer goes off no later than the deadline, and a request that sends    *)
(* has something to send.                                                     *)
WatchInv ==
    /\ StallTypeOK
    /\ watching => left + silence = StallTimeout /\ alarm <= left
    /\ exchange.at = "sending" => exchange.toSend # 0

Exchange ==
    [at : {"sending", "awaiting", "reading", "ended"},
     toSend : 0 .. BodyParts, toRead : 0 .. BodyParts, redirected : BOOLEAN]

LEMMA WatchTypes ==
    ASSUME StallTypeOK
    PROVE  /\ phase \in {0, 1, 2} /\ left \in Nat /\ alarm \in Nat /\ silence \in Nat
           /\ left <= StallTimeout /\ alarm <= StallTimeout /\ silence <= StallTimeout
           /\ StallTimeout \in Nat /\ StallTimeout > 0 /\ BodyParts \in Nat
           /\ exchange \in Exchange /\ stalled \in 0 .. 3
           /\ exchange.toSend \in 0 .. BodyParts /\ exchange.toRead \in 0 .. BodyParts
BY DEF StallTypeOK, Exchange, Sending, Reading, NotStalled

LEMMA WatchTyped ==
    ASSUME phase' \in {0, 1, 2}, left' \in 0 .. StallTimeout, alarm' \in 0 .. StallTimeout,
           watching' \in BOOLEAN, stalled' \in 0 .. 3, exchange' \in Exchange,
           silence' \in 0 .. StallTimeout
    PROVE  StallTypeOK'
BY DEF StallTypeOK, Exchange, Sending, Reading, NotStalled

(* A request whose parts are changed is a request.                            *)
LEMMA ExchangeAt ==
    ASSUME NEW at \in {"sending", "awaiting", "reading", "ended"}, exchange \in Exchange,
           exchange' = [exchange EXCEPT !.at = at]
    PROVE  exchange' \in Exchange /\ exchange'.at = at
BY DEF Exchange

LEMMA ExchangeSends ==
    ASSUME NEW at \in {"sending", "awaiting", "reading", "ended"}, NEW n \in 0 .. BodyParts,
           exchange \in Exchange, exchange' = [exchange EXCEPT !.toSend = n, !.at = at]
    PROVE  exchange' \in Exchange /\ exchange'.at = at /\ exchange'.toSend = n
BY DEF Exchange

LEMMA ExchangeReads ==
    ASSUME NEW n \in 0 .. BodyParts, exchange \in Exchange,
           exchange' = [exchange EXCEPT !.toRead = n]
    PROVE  exchange' \in Exchange /\ exchange'.at = exchange.at
BY DEF Exchange

LEMMA ExchangeAgain ==
    ASSUME NEW n \in 0 .. BodyParts, exchange \in Exchange,
           exchange' = [exchange EXCEPT !.at = "sending", !.toSend = n, !.redirected = TRUE]
    PROVE  exchange' \in Exchange /\ exchange'.toSend = n
BY DEF Exchange

(* Progress gives the request the whole timeout again.                        *)
LEMMA ProgressKeeps ==
    ASSUME WatchInv, NEW p \in {0, 1, 2}, Moved(p), UNCHANGED <<alarm, watching, stalled>>,
           exchange' \in Exchange, exchange'.at = "sending" => exchange'.toSend # 0
    PROVE  WatchInv'
<1>1. StallTypeOK
    BY DEF WatchInv
<1>2. left' = (IF watching THEN StallTimeout ELSE left) /\ silence' = 0
    BY DEF Moved
<1>3. phase' \in {0, 1, 2}
    BY <1>1, WatchTypes DEF Moved
<1>4. watching' => left' + silence' = StallTimeout /\ alarm' <= left'
    BY <1>1, <1>2, WatchTypes
<1>5. watching' \in BOOLEAN /\ left' \in 0 .. StallTimeout
    BY <1>1, <1>2, WatchTypes DEF StallTypeOK
<1>6. StallTypeOK'
    BY <1>1, <1>2, <1>3, <1>5, WatchTypes, WatchTyped
<1> QED
    BY <1>4, <1>6 DEF WatchInv

(* Every step keeps the invariant.                                            *)
LEMMA WatchStep == ASSUME WatchInv, [StallNext]_stallVars PROVE WatchInv'
<1>1. StallTypeOK /\ (exchange.at = "sending" => exchange.toSend # 0)
    BY DEF WatchInv
<1>2. exchange \in Exchange /\ BodyParts \in Nat
    BY <1>1, WatchTypes
<1>3. CASE SendPart
    <2>1. exchange.toSend \in 0 .. BodyParts /\ exchange.toSend # 0 /\ exchange.at = "sending"
        BY <1>1, <1>2, <1>3 DEF SendPart, Exchange
    <2> DEFINE at == IF exchange.toSend = 1 THEN "awaiting" ELSE exchange.at
               n  == exchange.toSend - 1
    <2>2. /\ exchange' = [exchange EXCEPT !.toSend = n, !.at = at]
          /\ UNCHANGED <<alarm, watching, stalled>>
          /\ Moved(IF exchange.toSend = 1 THEN Awaiting ELSE Sending)
        BY <1>3 DEF SendPart
    <2>3. n \in 0 .. BodyParts /\ at \in {"sending", "awaiting", "reading", "ended"} /\ (at = "sending" => n # 0)
        BY <1>2, <2>1
    <2> HIDE DEF at, n
    <2>4. exchange' \in Exchange /\ exchange'.at = at /\ exchange'.toSend = n
        BY <1>2, <2>2, <2>3, ExchangeSends
    <2>5. (IF exchange.toSend = 1 THEN Awaiting ELSE Sending) \in {0, 1, 2}
        BY DEF Awaiting, Sending
    <2> QED
        BY <2>2, <2>3, <2>4, <2>5, ProgressKeeps
<1>4. CASE Redirect
    <2>1. /\ BodyParts > 0 /\ UNCHANGED <<phase, left, alarm, watching, stalled, silence>>
          /\ exchange' = [exchange EXCEPT !.at = "sending", !.toSend = BodyParts, !.redirected = TRUE]
        BY <1>4 DEF Redirect
    <2>2. exchange' \in Exchange /\ exchange'.toSend = BodyParts
        BY <1>2, <2>1, BodyParts \in 0 .. BodyParts, ExchangeAgain
    <2>3. StallTypeOK'
        BY <1>1, <2>1, <2>2 DEF StallTypeOK, Exchange
    <2> QED
        BY <2>1, <2>2, <2>3 DEF WatchInv
<1>5. CASE Headers
    <2>1. exchange' \in Exchange /\ exchange'.at = "reading"
        BY <1>2, <1>5, ExchangeAt DEF Headers
    <2>2. Moved(Reading) /\ Reading \in {0, 1, 2} /\ UNCHANGED <<alarm, watching, stalled>>
        BY <1>5 DEF Headers, Reading
    <2> QED
        BY <2>1, <2>2, ProgressKeeps
<1>6. CASE ReadPart
    <2>1. exchange.toRead - 1 \in 0 .. BodyParts /\ exchange.at = "reading"
        BY <1>2, <1>6 DEF ReadPart, Exchange
    <2>2. exchange' \in Exchange /\ exchange'.at = "reading"
        BY <1>2, <1>6, <2>1, ExchangeReads DEF ReadPart
    <2>3. Moved(Reading) /\ Reading \in {0, 1, 2} /\ UNCHANGED <<alarm, watching, stalled>>
        BY <1>6 DEF ReadPart, Reading
    <2> QED
        BY <2>2, <2>3, ProgressKeeps
<1>7. CASE EndRequest
    <2>1. exchange' \in Exchange /\ exchange'.at = "ended"
        BY <1>2, <1>7, ExchangeAt DEF EndRequest
    <2>2. StallTypeOK'
        BY <1>1, <1>7, <2>1 DEF EndRequest, StallTypeOK, Exchange
    <2> QED
        BY <1>7, <2>1, <2>2 DEF EndRequest, WatchInv
<1>8. CASE CheckStall
    <2>1. /\ left \in 0 .. StallTimeout /\ phase \in {0, 1, 2} /\ left \in Nat
          /\ StallTimeout \in Nat
        BY <1>1, WatchTypes DEF StallTypeOK
    <2>2. watching /\ UNCHANGED <<phase, left, exchange, silence>>
        BY <1>8 DEF CheckStall
    <2>3. \/ alarm' = left /\ UNCHANGED <<watching, stalled>>
          \/ watching' = FALSE /\ stalled' = phase /\ UNCHANGED alarm
        BY <1>8 DEF CheckStall
    <2>4. alarm' \in 0 .. StallTimeout /\ watching' \in BOOLEAN /\ stalled' \in 0 .. 3
        <3>1. alarm \in 0 .. StallTimeout /\ watching \in BOOLEAN /\ stalled \in 0 .. 3
            BY <1>1 DEF StallTypeOK, Sending, NotStalled
        <3>2. CASE alarm' = left /\ UNCHANGED <<watching, stalled>>
            BY <2>1, <3>1, <3>2
        <3>3. CASE watching' = FALSE /\ stalled' = phase /\ UNCHANGED alarm
            <4>1. watching' \in BOOLEAN
                BY <3>3
            <4>2. alarm' = alarm /\ stalled' = phase
                BY <3>3
            <4> QED
                BY <2>1, <3>1, <4>1, <4>2
        <3> QED
            BY <2>3, <3>2, <3>3
    <2>5. StallTypeOK'
        BY <1>1, <2>2, <2>4 DEF StallTypeOK, Sending, NotStalled
    <2>6. watching' => left' + silence' = StallTimeout /\ alarm' <= left'
        BY <2>1, <2>2, <2>3 DEF WatchInv
    <2> QED
        BY <1>1, <2>2, <2>5, <2>6 DEF WatchInv
<1>9. CASE StallTick
    <2>1. StallTypeOK'
        BY <1>1, <1>9, WatchTypes, WatchTyped DEF StallTick, StallTypeOK
    <2> QED
        BY <1>1, <1>9, <2>1, WatchTypes DEF StallTick, WatchInv
<1>10. CASE UNCHANGED stallVars
    BY <1>10 DEF stallVars, WatchInv, StallTypeOK
<1> QED
    BY <1>3, <1>4, <1>5, <1>6, <1>7, <1>8, <1>9, <1>10 DEF StallNext

(* A request is ended as stalled exactly when it has made no progress for the *)
(* whole timeout, in whichever phase, for every timeout and body.             *)
THEOREM WatchdogIsExact == StallSpec => StallIsReal
<1>1. StallInit => WatchInv
    <2> SUFFICES ASSUME StallInit PROVE WatchInv
        OBVIOUS
    <2>1. PICK n \in 0 .. BodyParts :
            exchange = [at |-> IF n = 0 THEN "awaiting" ELSE "sending",
                        toSend |-> n, toRead |-> BodyParts, redirected |-> FALSE]
        BY DEF StallInit
    <2>2. exchange \in Exchange /\ (exchange.at = "sending" => exchange.toSend # 0)
        BY <2>1 DEF Exchange
    <2>3. /\ phase \in {0, 1} /\ left = StallTimeout /\ alarm = StallTimeout /\ watching = TRUE
          /\ stalled = 3 /\ silence = 0
        BY DEF StallInit, Sending, Awaiting, NotStalled
    <2> QED
        BY <2>2, <2>3 DEF WatchInv, StallTypeOK, Exchange, Sending, Reading, NotStalled
<1>2. WatchInv /\ [StallNext]_stallVars => WatchInv'
    BY WatchStep
<1>3. WatchInv => StallTypeOK
    BY DEF WatchInv
<1>4. WatchInv /\ [StallNext]_stallVars =>
        [stalled' # stalled => silence = StallTimeout]_stallVars
    <2> SUFFICES ASSUME WatchInv, StallNext, stalled' # stalled PROVE silence = StallTimeout
        OBVIOUS
    <2>1. CheckStall
        BY DEF StallNext, SendPart, Redirect, Headers, ReadPart, EndRequest, StallTick
    <2> QED
        <3>1. left = 0 /\ watching
            <4>1. StallTypeOK /\ ~(left > 0)
                BY <2>1 DEF CheckStall, WatchInv
            <4> QED
                BY <2>1, <4>1 DEF CheckStall, StallTypeOK
        <3>2. StallTypeOK /\ left + silence = StallTimeout
            BY <3>1 DEF WatchInv
        <3> QED
            BY <3>1, <3>2, WatchTypes
<1>5. WatchInv /\ [StallNext]_stallVars => [StallTick => silence < StallTimeout]_stallVars
    <2> SUFFICES ASSUME WatchInv, StallTick PROVE silence < StallTimeout
        OBVIOUS
    <2> QED
        BY WatchTypes DEF StallTick, WatchInv
<1> QED
    BY <1>1, <1>2, <1>3, <1>4, <1>5, PTL DEF StallSpec, StallIsReal
-----------------------------------------------------------------------------
(* SessionRenewal.                                                            *)

Call ==
    [at : {"ready", "sent", "renew", "joined", "waiting", "resend", "resent", "done"},
     token : 0 .. MaxTokens,
     answer : {"none", "ok", "rejected", "error", "renewFailed", "canceled"},
     canceled : BOOLEAN, effects : 0 .. 2]

Flight ==
    [at : {"none", "started", "signIn", "signed"}, token : 0 .. MaxTokens,
     waiters : SUBSET Calls, abandoned : BOOLEAN]

(* What is known of one request while the session sends token s and Tableau   *)
(* accepts token l: it was sent with a token no newer than s, a request that  *)
(* asks for a renewal holds a token Tableau no longer accepts, one that is    *)
(* sent again will send another, and only an answered one was carried out.    *)
CallInv(r, s, l) ==
    /\ r \in Call
    /\ r.token <= s
    /\ r.at # "ready" => r.token >= 1
    /\ r.at \in {"renew", "waiting"} => r.token # l
    /\ r.at = "resend" => r.token # s
    /\ r.at # "done" => r.effects = 0 /\ r.answer # "ok"
    /\ r.effects <= 1
    /\ r.answer = "ok" => r.effects = 1
    /\ r.at = "done" /\ r.answer \in {"rejected", "renewFailed", "canceled"} => r.effects = 0

(* An attempt renews a token that Tableau no longer accepts, signs in only    *)
(* while the session carries that token, and once signed in has a newer one.  *)
FlightInv(f, s, l, n) ==
    /\ f \in Flight
    /\ f.at = "signed" => s < n
    /\ f.at # "none" => 1 <= f.token /\ f.token <= s
    /\ f.at \in {"started", "signIn"} => f.token # l
    /\ f.at \in {"signIn", "signed"} => s = f.token
    /\ f.at = "none" => f.waiters = {}

TokenInv ==
    /\ sessionToken \in 1 .. MaxTokens /\ liveToken \in 0 .. MaxTokens
    /\ issuedTokens \in 1 .. MaxTokens
    /\ sessionToken <= issuedTokens /\ liveToken <= issuedTokens

(* The waiters of an attempt have joined it with the token that it renews.    *)
WaitersInv == \A c \in flight.waiters : call[c].at = "joined" /\ call[c].token = flight.token

RenewInv ==
    /\ TokenInv
    /\ FlightInv(flight, sessionToken, liveToken, issuedTokens)
    /\ call \in [Calls -> Call]
    /\ \A c \in Calls : CallInv(call[c], sessionToken, liveToken)
    /\ WaitersInv

LEMMA RenewInvTypes == ASSUME RenewInv PROVE RenewalTypeOK /\ CarriedOutOnce
<1>1. sessionToken \in Nat /\ \A c \in Calls : call[c].token \in Nat
    BY DEF RenewInv, TokenInv, Call
<1>2. RenewalTypeOK
    BY DEF RenewInv, TokenInv, FlightInv, RenewalTypeOK, Call, Flight
<1>3. CarriedOutOnce
    BY DEF RenewInv, CallInv, CarriedOutOnce
<1> QED
    BY <1>2, <1>3

(* One request changes and keeps what is known of requests.                   *)
LEMMA OneCallChanges ==
    ASSUME RenewInv, NEW c \in Calls, NEW r, call' = [call EXCEPT ![c] = r],
           UNCHANGED <<sessionToken, liveToken, issuedTokens>>,
           CallInv(r, sessionToken, liveToken),
           FlightInv(flight', sessionToken, liveToken, issuedTokens),
           \A d \in flight'.waiters \ {c} : d \in flight.waiters /\ flight'.token = flight.token,
           c \in flight'.waiters => r.at = "joined" /\ r.token = flight'.token
    PROVE  RenewInv'
<1>1. call \in [Calls -> Call] /\ r \in Call
    BY DEF RenewInv, CallInv
<1>2. call' \in [Calls -> Call] /\ call'[c] = r /\ \A d \in Calls \ {c} : call'[d] = call[d]
    BY <1>1
<1>3. TokenInv'
    BY DEF RenewInv, TokenInv
<1>4. \A d \in Calls : CallInv(call'[d], sessionToken, liveToken)
    BY <1>2 DEF RenewInv
<1>5. FlightInv(flight, sessionToken, liveToken, issuedTokens)' /\ flight'.waiters \subseteq Calls
    BY DEF FlightInv, Flight
<1>6. WaitersInv'
    BY <1>2, <1>5 DEF RenewInv, WaitersInv
<1>7. \A d \in Calls : CallInv(call'[d], sessionToken', liveToken')
    BY <1>4
<1> QED
    BY <1>2, <1>3, <1>5, <1>6, <1>7 DEF RenewInv

(* The same for a request that is not a waiter, when the attempt is unchanged.*)
LEMMA OneCallMoves ==
    ASSUME RenewInv, NEW c \in Calls, NEW r, call' = [call EXCEPT ![c] = r],
           UNCHANGED <<sessionToken, liveToken, issuedTokens, flight>>,
           CallInv(r, sessionToken, liveToken),
           call[c].at # "joined" \/ (r.at = "joined" /\ r.token = call[c].token)
    PROVE  RenewInv'
<1>1. FlightInv(flight', sessionToken, liveToken, issuedTokens)
    BY DEF RenewInv
<1>2. c \in flight'.waiters => r.at = "joined" /\ r.token = flight'.token
    BY DEF RenewInv, WaitersInv
<1> QED
    BY <1>1, <1>2, OneCallChanges

LEMMA CallIsTyped ==
    ASSUME RenewInv, NEW c \in Calls
    PROVE  /\ call[c] \in Call /\ CallInv(call[c], sessionToken, liveToken)
           /\ sessionToken \in 1 .. MaxTokens /\ sessionToken \in Nat /\ MaxTokens \in Nat
           /\ call[c].token \in Nat
BY DEF RenewInv, TokenInv, Call

LEMMA SendKeeps == ASSUME RenewInv, NEW c \in Calls, Send(c) PROVE RenewInv'
<1> DEFINE at == IF call[c].at = "ready" THEN "sent" ELSE "resent"
           r  == [call[c] EXCEPT !.at = at, !.token = sessionToken]
<1>1. call[c].at \in {"ready", "resend"} /\ UNCHANGED <<sessionToken, liveToken, issuedTokens, flight>>
    BY DEF Send
<1>2. call' = [call EXCEPT ![c] = r]
    BY DEF Send
<1>3. at \in {"sent", "resent"}
    OBVIOUS
<1> HIDE DEF at
<1>a. call[c] \in Call /\ sessionToken \in 0 .. MaxTokens
    BY CallIsTyped
<1>4. /\ r \in Call /\ r.at = at /\ r.token = sessionToken
      /\ r.effects = call[c].effects /\ r.answer = call[c].answer
    BY <1>3, <1>a DEF Call
<1> HIDE DEF r
<1>5. CallInv(r, sessionToken, liveToken)
    BY <1>1, <1>3, <1>4, CallIsTyped DEF CallInv
<1> QED
    BY <1>1, <1>2, <1>5, OneCallMoves

LEMMA AnswerKeeps == ASSUME RenewInv, NEW c \in Calls, Answer(c) PROVE RenewInv'
<1>1. call[c].at \in {"sent", "resent"} /\ UNCHANGED <<sessionToken, liveToken, issuedTokens, flight>>
    BY DEF Answer
<1>2. PICK a \in {"ok", "error", "rejected"}, n \in {0, 1} :
        /\ a = "ok" => n = 1
        /\ a = "rejected" => n = 0
        /\ (call[c].token # liveToken) = (a = "rejected") \/ (a = "error" /\ n = 0)
        /\ call' = [call EXCEPT
                ![c].answer = a,
                ![c].effects = call[c].effects + n,
                ![c].at = IF call[c].at = "sent" /\ a = "rejected" THEN "renew" ELSE "done"]
    BY DEF Answer
<1> DEFINE at == IF call[c].at = "sent" /\ a = "rejected" THEN "renew" ELSE "done"
           m  == call[c].effects + n
           r  == [call[c] EXCEPT !.answer = a, !.effects = m, !.at = at]
<1>3. call' = [call EXCEPT ![c] = r]
    BY <1>2
<1>4. a = "rejected" => call[c].token # liveToken
    BY <1>2
<1>5. at \in {"renew", "done"} /\ (at = "renew" => a = "rejected")
    OBVIOUS
<1>6. call[c].effects = 0
    BY <1>1, CallIsTyped DEF CallInv
<1>7. m = n
    BY <1>6
<1> HIDE DEF at, m
<1>a. call[c] \in Call /\ m \in 0 .. 2
    BY <1>7, CallIsTyped
<1>8. /\ r \in Call /\ r.at = at /\ r.token = call[c].token /\ r.effects = n /\ r.answer = a
    BY <1>5, <1>7, <1>a DEF Call
<1> HIDE DEF r
<1>9. call[c].token >= 1 /\ call[c].token <= sessionToken
    BY <1>1, CallIsTyped DEF CallInv
<1>10. CallInv(r, sessionToken, liveToken)
    BY <1>2, <1>4, <1>5, <1>8, <1>9 DEF CallInv
<1> QED
    BY <1>1, <1>3, <1>10, OneCallMoves

LEMMA EndedCall ==
    ASSUME RenewInv, NEW c \in Calls, call[c].at \notin {"ready", "done"},
           NEW a \in {"renewFailed", "canceled"}
    PROVE  CallInv([call[c] EXCEPT !.at = "done", !.answer = a], sessionToken, liveToken)
<1> DEFINE r == [call[c] EXCEPT !.at = "done", !.answer = a]
<1>1. /\ r \in Call /\ r.at = "done" /\ r.token = call[c].token
      /\ r.effects = call[c].effects /\ r.answer = a
    BY CallIsTyped DEF Call
<1> HIDE DEF r
<1>2. CallInv(r, sessionToken, liveToken)
    BY <1>1, CallIsTyped DEF CallInv
<1> QED
    BY <1>2 DEF r

LEMMA MovedCall ==
    ASSUME RenewInv, NEW c \in Calls, call[c].at \notin {"ready", "done"},
           NEW at \in {"renew", "joined", "waiting", "resend"},
           at \in {"renew", "waiting"} => call[c].token # liveToken,
           at = "resend" => call[c].token # sessionToken
    PROVE  LET r == [call[c] EXCEPT !.at = at]
           IN  /\ CallInv(r, sessionToken, liveToken)
               /\ r.at = at /\ r.token = call[c].token
<1> DEFINE r == [call[c] EXCEPT !.at = at]
<1>1. /\ r \in Call /\ r.at = at /\ r.token = call[c].token
      /\ r.effects = call[c].effects /\ r.answer = call[c].answer
    BY CallIsTyped DEF Call
<1> HIDE DEF r
<1>2. CallInv(r, sessionToken, liveToken)
    BY <1>1, CallIsTyped DEF CallInv
<1> QED
    BY <1>1, <1>2 DEF r

LEMMA RenewCanceledKeeps == ASSUME RenewInv, NEW c \in Calls, RenewCanceled(c) PROVE RenewInv'
<1> DEFINE r == [call[c] EXCEPT !.at = "done", !.answer = "canceled"]
<1>1. /\ call[c].at = "renew" /\ UNCHANGED <<sessionToken, liveToken, issuedTokens, flight>>
      /\ call' = [call EXCEPT ![c] = r]
    BY DEF RenewCanceled, End
<1>2. CallInv(r, sessionToken, liveToken)
    BY <1>1, EndedCall
<1> HIDE DEF r
<1> QED
    BY <1>1, <1>2, OneCallMoves

LEMMA EnterKeeps == ASSUME RenewInv, NEW c \in Calls, EnterFlight(c) PROVE RenewInv'
<1>1. /\ call[c].at = "renew" /\ UNCHANGED <<sessionToken, liveToken, issuedTokens>>
      /\ call[c].token # liveToken /\ call[c].token >= 1 /\ call[c].token <= sessionToken
      /\ call[c].token \in 0 .. MaxTokens
    BY CallIsTyped DEF EnterFlight, CallInv, Call
<1>2. flight \in Flight /\ FlightInv(flight, sessionToken, liveToken, issuedTokens)
    BY DEF RenewInv, FlightInv
<1> DEFINE r == [call[c] EXCEPT !.at = "joined"]
           w == [call[c] EXCEPT !.at = "waiting"]
<1>3. CallInv(r, sessionToken, liveToken) /\ r.at = "joined" /\ r.token = call[c].token
    BY <1>1, MovedCall
<1>4. CallInv(w, sessionToken, liveToken)
    BY <1>1, MovedCall
<1>5. CASE flight.at = "none"
    <2>1. /\ flight' = [at |-> "started", token |-> call[c].token, waiters |-> {c}, abandoned |-> FALSE]
          /\ call' = [call EXCEPT ![c] = r]
        BY <1>5 DEF EnterFlight
    <2>2. /\ flight' \in Flight /\ flight'.at = "started" /\ flight'.token = call[c].token
          /\ flight'.waiters = {c}
        BY <1>1, <2>1 DEF Flight
    <2>3. FlightInv(flight', sessionToken, liveToken, issuedTokens)
        BY <1>1, <2>2 DEF FlightInv
    <2> HIDE DEF r
    <2> QED
        BY <1>1, <1>3, <2>1, <2>2, <2>3, OneCallChanges
<1>6. CASE flight.at # "none" /\ flight.token = call[c].token /\ ~flight.abandoned
    <2> DEFINE ws == flight.waiters \cup {c}
    <2>1. flight' = [flight EXCEPT !.waiters = ws] /\ call' = [call EXCEPT ![c] = r]
        BY <1>6 DEF EnterFlight
    <2>2. ws \in SUBSET Calls
        BY <1>2 DEF Flight
    <2>3. \A d \in ws \ {c} : d \in flight.waiters
        OBVIOUS
    <2> HIDE DEF ws
    <2>4. /\ flight' \in Flight /\ flight'.at = flight.at /\ flight'.token = flight.token
          /\ flight'.waiters = ws
        BY <1>2, <2>1, <2>2 DEF Flight
    <2>5. FlightInv(flight', sessionToken, liveToken, issuedTokens)
        BY <1>2, <1>6, <2>4 DEF FlightInv
    <2> HIDE DEF r
    <2> QED
        BY <1>1, <1>3, <1>6, <2>1, <2>3, <2>4, <2>5, OneCallChanges
<1>7. CASE flight.at # "none" /\ ~(flight.token = call[c].token /\ ~flight.abandoned)
    <2>1. flight' = flight /\ call' = [call EXCEPT ![c] = w]
        BY <1>7 DEF EnterFlight
    <2> HIDE DEF w
    <2> QED
        BY <1>1, <1>4, <2>1, OneCallMoves
<1> QED
    BY <1>5, <1>6, <1>7

LEMMA LeaveKeeps == ASSUME RenewInv, NEW c \in Calls, LeaveFlight(c) PROVE RenewInv'
<1> DEFINE r == [call[c] EXCEPT !.at = "done", !.answer = "canceled"]
<1>1. /\ call[c].at \in {"joined", "waiting"} /\ UNCHANGED <<sessionToken, liveToken, issuedTokens>>
      /\ call' = [call EXCEPT ![c] = r]
    BY DEF LeaveFlight, End
<1>2. CallInv(r, sessionToken, liveToken)
    BY <1>1, EndedCall
<1>3. flight \in Flight /\ FlightInv(flight, sessionToken, liveToken, issuedTokens)
    BY DEF RenewInv, FlightInv
<1>4. CASE call[c].at = "waiting"
    <2>1. flight' = flight
        BY <1>4 DEF LeaveFlight
    <2> HIDE DEF r
    <2> QED
        BY <1>1, <1>2, <1>4, <2>1, OneCallMoves
<1>5. CASE call[c].at = "joined"
    <2> DEFINE ws == flight.waiters \ {c}
               b  == flight.abandoned \/ flight.waiters = {c}
    <2>1. flight' = [flight EXCEPT !.waiters = ws, !.abandoned = b]
        BY <1>5 DEF LeaveFlight
    <2>2. ws \in SUBSET Calls /\ c \notin ws /\ ws \subseteq flight.waiters
        BY <1>3 DEF Flight
    <2>3. b \in BOOLEAN
        OBVIOUS
    <2>4. flight.waiters = {} => ws = {}
        OBVIOUS
    <2> HIDE DEF ws, b
    <2>5. /\ flight' \in Flight /\ flight'.at = flight.at /\ flight'.token = flight.token
          /\ flight'.waiters = ws
        BY <1>3, <2>1, <2>2, <2>3 DEF Flight
    <2>6. FlightInv(flight', sessionToken, liveToken, issuedTokens)
        BY <1>3, <2>4, <2>5 DEF FlightInv
    <2> HIDE DEF r
    <2>7. \A d \in flight'.waiters \ {c} : d \in flight.waiters /\ flight'.token = flight.token
        BY <2>2, <2>5
    <2>8. c \notin flight'.waiters
        BY <2>2, <2>5
    <2> QED
        BY <1>1, <1>2, <2>6, <2>7, <2>8, OneCallChanges
<1> QED
    BY <1>1, <1>4, <1>5

LEMMA CancelKeeps == ASSUME RenewInv, NEW c \in Calls, CancelCall(c) PROVE RenewInv'
<1> DEFINE r == [call[c] EXCEPT !.canceled = TRUE]
<1>1. /\ UNCHANGED <<sessionToken, liveToken, issuedTokens, flight>>
      /\ call' = [call EXCEPT ![c] = r]
    BY DEF CancelCall
<1>2. /\ r \in Call /\ r.at = call[c].at /\ r.token = call[c].token
      /\ r.effects = call[c].effects /\ r.answer = call[c].answer
    BY CallIsTyped DEF Call
<1> HIDE DEF r
<1>3. CallInv(r, sessionToken, liveToken)
    BY <1>2, CallIsTyped DEF CallInv
<1> QED
    BY <1>1, <1>2, <1>3, OneCallMoves

(* The end of an attempt, while the session carries token s afterwards: its   *)
(* waiters go on or fail, those that waited for it try again.                 *)
Woken(c, s) ==
    \/ /\ c \in flight.waiters /\ flight.token # s
       /\ call'[c] = [call[c] EXCEPT !.at = "resend"]
    \/ /\ c \in flight.waiters
       /\ call'[c] = [call[c] EXCEPT !.at = "done", !.answer = "renewFailed"]
    \/ /\ call[c].at = "waiting"
       /\ call'[c] = [call[c] EXCEPT !.at = "renew"]
    \/ call'[c] = call[c]

LEMMA WokenKeeps ==
    ASSUME RenewInv, NEW c \in Calls, NEW s \in Nat, Woken(c, s), sessionToken <= s,
           call[c].at = "resend" => call[c].token # s
    PROVE  CallInv(call'[c], s, liveToken)
<1>1. /\ CallInv(call[c], sessionToken, liveToken) /\ call[c] \in Call /\ call[c].token \in Nat
      /\ sessionToken \in Nat
    BY CallIsTyped
<1>2. call[c].token <= s
    BY <1>1 DEF CallInv
<1>3. c \in flight.waiters => call[c].at = "joined" /\ call[c].token = flight.token
    BY DEF RenewInv, WaitersInv
<1> DEFINE r == [call[c] EXCEPT !.at = "resend"]
           f == [call[c] EXCEPT !.at = "done", !.answer = "renewFailed"]
           w == [call[c] EXCEPT !.at = "renew"]
<1>4. CASE c \in flight.waiters /\ flight.token # s /\ call'[c] = r
    <2>1. /\ r \in Call /\ r.at = "resend" /\ r.token = call[c].token
          /\ r.effects = call[c].effects /\ r.answer = call[c].answer
        BY <1>1 DEF Call
    <2> HIDE DEF r
    <2> QED
        BY <1>1, <1>2, <1>3, <1>4, <2>1 DEF CallInv
<1>5. CASE c \in flight.waiters /\ call'[c] = f
    <2>1. /\ f \in Call /\ f.at = "done" /\ f.token = call[c].token
          /\ f.effects = call[c].effects /\ f.answer = "renewFailed"
        BY <1>1 DEF Call
    <2> HIDE DEF f
    <2> QED
        BY <1>1, <1>2, <1>3, <1>5, <2>1 DEF CallInv
<1>6. CASE call[c].at = "waiting" /\ call'[c] = w
    <2>1. /\ w \in Call /\ w.at = "renew" /\ w.token = call[c].token
          /\ w.effects = call[c].effects /\ w.answer = call[c].answer
        BY <1>1 DEF Call
    <2> HIDE DEF w
    <2> QED
        BY <1>1, <1>2, <1>6, <2>1 DEF CallInv
<1>7. CASE call'[c] = call[c]
    BY <1>1, <1>2, <1>7 DEF CallInv
<1> QED
    BY <1>4, <1>5, <1>6, <1>7 DEF Woken

LEMMA NoFlightInv ==
    ASSUME NEW s, NEW l, NEW n PROVE FlightInv(NoFlight, s, l, n) /\ NoFlight.waiters = {}
<1>1. NoFlight \in Flight
    BY DEF NoFlight, Flight
<1>2. NoFlight.at = "none" /\ NoFlight.waiters = {}
    BY DEF NoFlight
<1> QED
    BY <1>1, <1>2 DEF FlightInv

LEMMA EndFlightKeeps ==
    ASSUME RenewInv, UNCHANGED <<liveToken, issuedTokens>>, flight' = NoFlight,
           call' = [c \in Calls |-> call'[c]], \A c \in Calls : Woken(c, sessionToken'),
           sessionToken' \in 1 .. MaxTokens, sessionToken' <= issuedTokens,
           sessionToken <= sessionToken',
           \A c \in Calls : call[c].at = "resend" => call[c].token # sessionToken'
    PROVE  RenewInv'
<1>1. sessionToken' \in Nat
    OBVIOUS
<1>2. \A c \in Calls : CallInv(call'[c], sessionToken', liveToken)
    BY <1>1, WokenKeeps
<1>3. \A c \in Calls : call'[c] \in Call
    BY <1>2 DEF CallInv
<1>4. call' \in [Calls -> Call]
    BY <1>3
<1>5. \A c \in Calls : CallInv(call'[c], sessionToken', liveToken')
    BY <1>2
<1>6. TokenInv'
    BY DEF RenewInv, TokenInv
<1>7. FlightInv(flight, sessionToken, liveToken, issuedTokens)' /\ WaitersInv'
    BY NoFlightInv DEF WaitersInv
<1> QED
    BY <1>4, <1>5, <1>6, <1>7 DEF RenewInv

(* What an attempt that ends does to one request.                             *)
LEMMA EndOfFlight ==
    ASSUME RenewInv, NEW c \in Calls, NEW ok \in BOOLEAN, EndFlight(ok)
    PROVE  \/ /\ ok /\ c \in flight.waiters
              /\ call'[c] = [call[c] EXCEPT !.at = "resend"]
           \/ /\ c \in flight.waiters
              /\ call'[c] = [call[c] EXCEPT !.at = "done", !.answer = "renewFailed"]
           \/ /\ call[c].at = "waiting"
              /\ call'[c] = [call[c] EXCEPT !.at = "renew"]
           \/ call'[c] = call[c]
<1> DEFINE after(d) ==
            CASE d \in flight.waiters /\ ok  -> [call[d] EXCEPT !.at = "resend"]
              [] d \in flight.waiters /\ ~ok -> [call[d] EXCEPT !.at = "done", !.answer = "renewFailed"]
              [] call[d].at = "waiting"      -> [call[d] EXCEPT !.at = "renew"]
              [] OTHER                       -> call[d]
<1>0. call' = [d \in Calls |-> after(d)]
    BY DEF EndFlight
<1> HIDE DEF after
<1>a. call'[c] = after(c)
    BY <1>0
<1>1. CASE c \in flight.waiters /\ ok
    BY <1>1, <1>a, Zenon DEF after
<1>2. CASE c \in flight.waiters /\ ~ok
    BY <1>2, <1>a, Zenon DEF after
<1>3. CASE c \notin flight.waiters /\ call[c].at = "waiting"
    BY <1>3, <1>a, Zenon DEF after
<1>4. CASE c \notin flight.waiters /\ call[c].at # "waiting"
    BY <1>4, <1>a, Zenon DEF after
<1> QED
    BY <1>1, <1>2, <1>3, <1>4, Zenon

LEMMA EndsWhole == ASSUME NEW ok, EndFlight(ok)
                   PROVE  flight' = NoFlight /\ call' = [c \in Calls |-> call'[c]]
<1> DEFINE after(d) ==
            CASE d \in flight.waiters /\ ok  -> [call[d] EXCEPT !.at = "resend"]
              [] d \in flight.waiters /\ ~ok -> [call[d] EXCEPT !.at = "done", !.answer = "renewFailed"]
              [] call[d].at = "waiting"      -> [call[d] EXCEPT !.at = "renew"]
              [] OTHER                       -> call[d]
<1>1. call' = [d \in Calls |-> after(d)]
    BY DEF EndFlight
<1> HIDE DEF after
<1>2. call' = [c \in Calls |-> call'[c]]
    BY <1>1
<1> QED
    BY <1>2 DEF EndFlight

LEMMA RenewedKeeps ==
    ASSUME RenewInv, EndFlight(TRUE), UNCHANGED <<liveToken, issuedTokens>>,
           sessionToken' \in 1 .. MaxTokens, sessionToken' <= issuedTokens,
           sessionToken <= sessionToken', flight.token # sessionToken',
           \A c \in Calls : call[c].at = "resend" => call[c].token # sessionToken'
    PROVE  RenewInv'
<1>1. flight' = NoFlight /\ call' = [c \in Calls |-> call'[c]]
    BY EndsWhole
<1>2. \A c \in Calls : Woken(c, sessionToken')
    BY EndOfFlight DEF Woken
<1> QED
    BY <1>1, <1>2, EndFlightKeeps

LEMMA NotRenewedKeeps ==
    ASSUME RenewInv, EndFlight(FALSE), UNCHANGED <<sessionToken, liveToken, issuedTokens>>
    PROVE  RenewInv'
<1>1. flight' = NoFlight /\ call' = [c \in Calls |-> call'[c]]
    BY EndsWhole
<1>2. \A c \in Calls : Woken(c, sessionToken')
    BY EndOfFlight DEF Woken
<1>4. sessionToken \in 1 .. MaxTokens /\ sessionToken <= issuedTokens /\ sessionToken <= sessionToken
    BY DEF RenewInv, TokenInv
<1>5. \A c \in Calls : call[c].at = "resend" => call[c].token # sessionToken
    BY DEF RenewInv, CallInv
<1> QED
    BY <1>1, <1>2, <1>4, <1>5, EndFlightKeeps

(* The attempt moves on, or the session ends, and no request changes.         *)
LEMMA TokensMove ==
    ASSUME RenewInv, UNCHANGED <<sessionToken, call>>, TokenInv',
           FlightInv(flight, sessionToken, liveToken, issuedTokens)',
           flight'.waiters = flight.waiters, flight'.token = flight.token,
           \A c \in Calls : call[c].at \in {"renew", "waiting"} => call[c].token # liveToken'
    PROVE  RenewInv'
<1>1. \A c \in Calls : CallInv(call[c], sessionToken, liveToken')
    BY DEF RenewInv, CallInv
<1>2. \A c \in Calls : CallInv(call'[c], sessionToken', liveToken')
    BY <1>1
<1>3. call' \in [Calls -> Call] /\ WaitersInv'
    BY DEF RenewInv, WaitersInv
<1> QED
    BY <1>2, <1>3 DEF RenewInv

LEMMA FlightKeeps == ASSUME RenewInv, FlightStep PROVE RenewInv'
<1>1. /\ flight \in Flight /\ FlightInv(flight, sessionToken, liveToken, issuedTokens)
      /\ flight.token \in Nat
    BY DEF RenewInv, FlightInv, Flight
<1>2. /\ sessionToken \in 1 .. MaxTokens /\ liveToken \in 0 .. MaxTokens
      /\ issuedTokens \in 1 .. MaxTokens
      /\ sessionToken <= issuedTokens /\ liveToken <= issuedTokens
    BY DEF RenewInv, TokenInv
<1>3. \A c \in Calls : /\ call[c].at = "resend" => call[c].token # sessionToken
                       /\ call[c].token <= sessionToken /\ call[c].token \in Nat
    BY CallIsTyped DEF CallInv
<1>4. CASE RenewUnneeded
    <2>1. EndFlight(TRUE) /\ sessionToken # flight.token
          /\ UNCHANGED <<sessionToken, liveToken, issuedTokens>>
        BY <1>4 DEF RenewUnneeded
    <2> QED
        BY <1>2, <1>3, <2>1, RenewedKeeps
<1>5. CASE RenewNeeded
    <2>1. /\ flight.at = "started" /\ sessionToken = flight.token
          /\ flight' = [flight EXCEPT !.at = "signIn"]
          /\ UNCHANGED <<sessionToken, liveToken, issuedTokens, call>>
        BY <1>5 DEF RenewNeeded
    <2>2. /\ flight' \in Flight /\ flight'.at = "signIn" /\ flight'.token = flight.token
          /\ flight'.waiters = flight.waiters
        BY <1>1, <2>1 DEF Flight
    <2>3. FlightInv(flight', sessionToken, liveToken, issuedTokens)
        BY <1>1, <2>1, <2>2 DEF FlightInv
    <2>4. TokenInv' /\ FlightInv(flight, sessionToken, liveToken, issuedTokens)'
        BY <2>1, <2>3 DEF RenewInv, TokenInv
    <2>5. \A c \in Calls : call[c].at \in {"renew", "waiting"} => call[c].token # liveToken'
        BY <2>1 DEF RenewInv, CallInv
    <2> QED
        BY <2>1, <2>2, <2>4, <2>5, TokensMove
<1>6. CASE SignInAgain
    <2>1. /\ flight.at = "signIn" /\ issuedTokens < MaxTokens
          /\ issuedTokens' = issuedTokens + 1 /\ liveToken' = issuedTokens + 1
          /\ flight' = [flight EXCEPT !.at = "signed"]
          /\ UNCHANGED <<sessionToken, call>>
        BY <1>6 DEF SignInAgain
    <2>2. /\ flight' \in Flight /\ flight'.at = "signed" /\ flight'.token = flight.token
          /\ flight'.waiters = flight.waiters
        BY <1>1, <2>1 DEF Flight
    <2>3. FlightInv(flight', sessionToken, liveToken', issuedTokens')
        BY <1>1, <1>2, <2>1, <2>2 DEF FlightInv
    <2>4. FlightInv(flight, sessionToken, liveToken, issuedTokens)'
        BY <2>1, <2>3
    <2>5. TokenInv'
        BY <1>2, <2>1 DEF TokenInv
    <2>6. \A c \in Calls : call[c].token # liveToken'
        BY <1>2, <1>3, <2>1
    <2> QED
        BY <2>1, <2>2, <2>4, <2>5, <2>6, TokensMove
<1>7. CASE ReplaceToken
    <2>1. /\ flight.at = "signed" /\ sessionToken' = issuedTokens /\ EndFlight(TRUE)
          /\ UNCHANGED <<liveToken, issuedTokens>>
        BY <1>7 DEF ReplaceToken
    <2>2. sessionToken < issuedTokens /\ flight.token <= sessionToken
        BY <1>1, <2>1 DEF FlightInv
    <2> QED
        BY <1>1, <1>2, <1>3, <2>1, <2>2, RenewedKeeps
<1>8. CASE RenewFails
    <2>1. EndFlight(FALSE) /\ UNCHANGED <<sessionToken, liveToken, issuedTokens>>
        BY <1>8 DEF RenewFails
    <2> QED
        BY <2>1, NotRenewedKeeps
<1> QED
    BY <1>4, <1>5, <1>6, <1>7, <1>8 DEF FlightStep

LEMMA SessionEndsKeeps == ASSUME RenewInv, SessionEnds PROVE RenewInv'
<1>1. liveToken' = 0 /\ UNCHANGED <<sessionToken, issuedTokens, flight, call>>
    BY DEF SessionEnds
<1>2. TokenInv'
    BY <1>1 DEF RenewInv, TokenInv
<1>3. FlightInv(flight, sessionToken, 0, issuedTokens)
    BY DEF RenewInv, FlightInv, Flight
<1>4. FlightInv(flight, sessionToken, liveToken, issuedTokens)'
    BY <1>1, <1>3
<1>5. \A c \in Calls : call[c].at \in {"renew", "waiting"} => call[c].token # 0
    BY CallIsTyped DEF CallInv
<1> QED
    BY <1>1, <1>2, <1>4, <1>5, TokensMove

LEMMA RenewStep == ASSUME RenewInv, [RenewalNext]_renewalVars PROVE RenewInv'
<1>1. ASSUME NEW c \in Calls, CallStep(c) \/ CancelCall(c) PROVE RenewInv'
    BY <1>1, SendKeeps, AnswerKeeps, RenewCanceledKeeps, EnterKeeps, LeaveKeeps, CancelKeeps
        DEF CallStep
<1>2. CASE UNCHANGED renewalVars
    BY <1>2 DEF renewalVars, RenewInv, TokenInv, FlightInv, CallInv, WaitersInv
<1> QED
    BY <1>1, <1>2, FlightKeeps, SessionEndsKeeps DEF RenewalNext

(* A sign-in starts only while the session carries a token that Tableau no    *)
(* longer accepts.                                                            *)
LEMMA SignInSpares ==
    ASSUME RenewInv, RenewalNext, issuedTokens' # issuedTokens PROVE sessionToken # liveToken
<1>1. SignInAgain
    BY DEF RenewalNext, CallStep, FlightStep, Send, Answer, RenewCanceled, EnterFlight,
           LeaveFlight, CancelCall, RenewUnneeded, RenewNeeded, ReplaceToken, RenewFails, SessionEnds
<1> QED
    BY <1>1 DEF SignInAgain, RenewInv, FlightInv

(* A request is carried out at most once however often it is sent, its answer *)
(* says so, and a renewal never ends a session that is still good: for any    *)
(* number of requests that share the session.                                 *)
THEOREM ResendsAreSafe == RenewalSpec => ResendIsSafe
<1>1. RenewalInit => RenewInv
    <2> SUFFICES ASSUME RenewalInit PROVE RenewInv
        OBVIOUS
    <2> DEFINE r == [at |-> "ready", token |-> 0, answer |-> "none",
                     canceled |-> FALSE, effects |-> 0]
    <2>1. sessionToken = 1 /\ liveToken = 1 /\ issuedTokens = 1 /\ flight = NoFlight
          /\ call = [c \in Calls |-> r]
        BY DEF RenewalInit
    <2>2. TokenInv
        BY <2>1 DEF TokenInv
    <2>3. flight \in Flight /\ flight.at = "none" /\ flight.waiters = {}
        BY <2>1 DEF NoFlight, Flight
    <2>4. FlightInv(flight, sessionToken, liveToken, issuedTokens) /\ WaitersInv
        BY <2>3 DEF FlightInv, WaitersInv
    <2>5. r \in Call
        BY DEF Call
    <2>6. CallInv(r, 1, 1)
        BY <2>5 DEF CallInv
    <2> HIDE DEF r
    <2> QED
        BY <2>1, <2>2, <2>4, <2>5, <2>6 DEF RenewInv
<1>2. RenewInv /\ [RenewalNext]_renewalVars => RenewInv'
    BY RenewStep
<1>3. RenewInv => RenewalTypeOK /\ CarriedOutOnce
    BY RenewInvTypes
<1>4. RenewInv /\ [RenewalNext]_renewalVars =>
        [issuedTokens' # issuedTokens => sessionToken # liveToken]_renewalVars
    BY SignInSpares
<1> QED
    BY <1>1, <1>2, <1>3, <1>4, PTL DEF RenewalSpec, ResendIsSafe, RenewalSparesLiveSession

USE JobConstants

-----------------------------------------------------------------------------
(* JobMonitor.                                                                *)

Results == {"none", "error", "canceled", "unavailable", "limit", "killed"} \cup Outcomes

Reads == [at : {"none", "due", "read", "failed"}, status : {"running"} \cup Outcomes,
          checked : 0 .. MaxAnswers]

Wait ==
    [at : {"start", "observed", "register", "index", "loop", "stop", "sleep", "lock", "collect",
           "read", "save", "done"},
     job : Jobs \cup {NoJob}, copy : Receipt, canceled : BOOLEAN, copies : [Jobs -> Receipt],
     reads : [Jobs -> Reads], result : Results]

(* An outcome that somebody names for a job is that of the job.               *)
Names(status, j) == status \in Outcomes => status = remote[j]

(* All that a process holds, however old, names only outcomes that hold.      *)
HoldsTrue(q) ==
    /\ q.at \notin {"start", "done"} => q.job \in Jobs
    /\ q.at = "start" => q.copy = Absent
    /\ q.at # "done" => q.result = "none"
    /\ q.job \in Jobs => Names(q.copy.status, q.job)
    /\ q.result \in Outcomes => q.job \in Jobs /\ Names(q.result, q.job)
    /\ \A j \in Jobs : Names(q.copies[j].status, j) /\ Names(q.reads[j].status, j)

SharedTyped ==
    /\ clock \in 0 .. MaxClock /\ answers \in 0 .. MaxAnswers
    /\ remote \in [Jobs -> {"running"} \cup Outcomes]
    /\ index \subseteq Jobs /\ roundLock \in Waiters \cup {Nobody}
    /\ quietUntil \in [Jobs -> 0 .. MaxClock + PollInterval]

ReceiptsHold == receipt \in [Jobs -> Receipt] /\ \A j \in Jobs : Names(receipt[j].status, j)

WaitersHold == waiter \in [Waiters -> Wait] /\ \A w \in Waiters : HoldsTrue(waiter[w])

JobInv == SharedTyped /\ ReceiptsHold /\ WaitersHold

LEMMA JobTypes ==
    ASSUME JobInv
    PROVE  /\ JobTypeOK /\ SharedTyped
           /\ receipt \in [Jobs -> Receipt] /\ waiter \in [Waiters -> Wait]
           /\ \A w \in Waiters : waiter[w] \in Wait /\ HoldsTrue(waiter[w])
           /\ \A j \in Jobs : receipt[j] \in Receipt /\ Names(receipt[j].status, j)
BY DEF JobInv, SharedTyped, ReceiptsHold, WaitersHold, JobTypeOK, Wait

LEMMA JobConstantsTyped ==
    /\ Accepted \in Receipt /\ Absent \in Receipt /\ NoRead \in Reads /\ NoWait \in Wait
    /\ Accepted.status = "running" /\ Absent.status = "absent" /\ NoRead.status = "running"
    /\ NoWait.copy = Absent /\ NoWait.canceled = FALSE
    /\ NoWait.copies = [j \in Jobs |-> Absent] /\ NoWait.reads = [j \in Jobs |-> NoRead]
    /\ NoWait.at = "start" /\ NoWait.job = NoJob /\ NoWait.result = "none"
<1>1. Accepted \in Receipt /\ Accepted.status = "running"
    BY DEF Accepted, Receipt
<1>2. Absent \in Receipt /\ Absent.status = "absent"
    BY <1>1 DEF Absent, Receipt
<1>3. NoRead \in Reads /\ NoRead.status = "running"
    BY DEF NoRead, Reads
<1>4. NoWait.copies \in [Jobs -> Receipt] /\ NoWait.reads \in [Jobs -> Reads]
    BY <1>2, <1>3 DEF NoWait
<1>5. NoWait \in Wait
    BY <1>2, <1>4 DEF NoWait, Wait, Results
<1> QED BY <1>1, <1>2, <1>3, <1>5 DEF NoWait

(* What a save leaves: one of the two receipts, never an outcome undone, and   *)
(* never an older answer.                                                     *)
OnlyForward ==
    \A i \in Jobs :
        /\ receipt'[i].checked >= receipt[i].checked
        /\ Terminal(receipt[i]) => receipt'[i].status = receipt[i].status

LEMMA SaveHolds ==
    ASSUME ReceiptsHold, NEW j \in Jobs, NEW r \in Receipt, Names(r.status, j), Save(j, r),
           UNCHANGED remote
    PROVE  ReceiptsHold' /\ OnlyForward
<1>1. receipt \in [Jobs -> Receipt] /\ receipt[j] \in Receipt
    BY DEF ReceiptsHold
<1> DEFINE p == receipt[j]
           m == Merge(p, r)
           kept == [p EXCEPT !.manual = r.manual, !.until = r.until]
<1>2. p \in Receipt /\ Names(p.status, j)
    BY DEF ReceiptsHold
<1>3. CASE Conflict(p, r)
    <2>1. receipt' = receipt
        BY <1>3 DEF Save
    <2> QED BY <1>1, <2>1 DEF ReceiptsHold, Names, Receipt, OnlyForward
<1>4. CASE ~Conflict(p, r)
    <2>1. receipt' = [receipt EXCEPT ![j] = m]
        BY <1>4 DEF Save
    <2>2. kept \in Receipt /\ kept.status = p.status /\ kept.checked = p.checked
        BY <1>2 DEF Receipt
    <2>3. m = kept \/ (m = r /\ ~(Terminal(p) /\ ~Terminal(r)) /\ ~(p.checked > r.checked))
        BY DEF Merge
    <2>4. p.checked \in Nat /\ r.checked \in Nat
        BY <1>2 DEF Receipt
    <2> HIDE DEF p, m, kept
    <2>5. m \in Receipt /\ Names(m.status, j) /\ m.checked >= p.checked
          /\ (Terminal(p) => m.status = p.status)
        <3>1. CASE m = kept
            BY <1>2, <2>2, <2>4, <3>1
        <3>2. CASE m = r /\ ~(Terminal(p) /\ ~Terminal(r)) /\ ~(p.checked > r.checked)
            BY <1>4, <2>4, <3>2 DEF Conflict
        <3> QED BY <2>3, <3>1, <3>2
    <2>6. receipt'[j] = m /\ receipt' \in [Jobs -> Receipt]
          /\ \A i \in Jobs : i # j => receipt'[i] = receipt[i]
        BY <1>1, <2>1, <2>5
    <2>7. \A i \in Jobs : receipt[i].checked \in Nat
        BY <1>1 DEF Receipt
    <2>8. OnlyForward
        BY <2>5, <2>6, <2>7 DEF p, OnlyForward
    <2>9. \A i \in Jobs : Names(receipt'[i].status, i)
        BY <2>5, <2>6 DEF ReceiptsHold
    <2> QED BY <2>6, <2>8, <2>9 DEF ReceiptsHold, Names
<1> QED BY <1>3, <1>4

LEMMA NextObserved ==
    ASSUME JobInv, NEW j \in Jobs, receipt' \in [Jobs -> Receipt]
    PROVE  [quietUntil EXCEPT ![j] = IF receipt'[j].next = 0 THEN 0 ELSE @]
                \in [Jobs -> 0 .. MaxClock + PollInterval]
<1>1. quietUntil[j] \in 0 .. MaxClock + PollInterval /\ 0 \in 0 .. MaxClock + PollInterval
    BY DEF JobInv, SharedTyped
<1> QED BY <1>1 DEF JobInv, SharedTyped

LEMMA WaiterMoves ==
    ASSUME JobInv, NEW w \in Waiters, NEW q \in Wait, HoldsTrue(q),
           waiter' = [waiter EXCEPT ![w] = q], UNCHANGED remote, SharedTyped', ReceiptsHold'
    PROVE  JobInv'
<1>1. waiter \in [Waiters -> Wait] /\ \A v \in Waiters : HoldsTrue(waiter[v])
    BY JobTypes
<1>2. /\ waiter' \in [Waiters -> Wait] /\ waiter'[w] = q
      /\ \A v \in Waiters : v # w => waiter'[v] = waiter[v]
    BY <1>1
<1>3. \A v \in Waiters : HoldsTrue(waiter'[v])
    BY <1>1, <1>2
<1>4. \A v \in Waiters : HoldsTrue(waiter[v])'
    BY <1>3 DEF HoldsTrue, Names
<1> QED BY <1>2, <1>4 DEF JobInv, WaitersHold

(* Only the process moves.                                                    *)
LEMMA OnlyWaiter ==
    ASSUME JobInv, NEW w \in Waiters, NEW q \in Wait, HoldsTrue(q),
           waiter' = [waiter EXCEPT ![w] = q], UNCHANGED <<clock, remote, receipt, quietUntil>>,
           answers' \in 0 .. MaxAnswers, index' \subseteq Jobs, roundLock' \in Waiters \cup {Nobody}
    PROVE  JobInv'
<1>1. SharedTyped' /\ ReceiptsHold'
    BY DEF JobInv, SharedTyped, ReceiptsHold, Names
<1> QED BY <1>1, WaiterMoves

(* The changes a process makes to what it holds.                              *)
WaitEnded(q, result) == [NoWait EXCEPT !.at = "done", !.job = q.job, !.result = result]
At(q, at) == [q EXCEPT !.at = at]
Forgets(q, at) == [q EXCEPT !.at = at, !.copies = NoWait.copies, !.reads = NoWait.reads]
Starts(q, j, at, copy) == [q EXCEPT !.job = j, !.at = at, !.copy = copy]
Found(q, j, status) == [q EXCEPT !.job = j, !.at = "done", !.result = status]
Copies(q, at, copies) == [q EXCEPT !.at = at, !.copies = copies]
Collects(q, copies, reads) == [q EXCEPT !.at = "read", !.copies = copies, !.reads = reads]
WaitReads(q, reads) == [q EXCEPT !.reads = reads]

Canceled(q) == [q EXCEPT !.canceled = TRUE]

Stages == {"start", "observed", "register", "index", "loop", "stop", "sleep", "lock", "collect",
           "read", "save", "done"}

LEMMA EndedHolds ==
    ASSUME NEW q \in Wait, HoldsTrue(q), NEW result \in Results,
           result \in Outcomes => q.job \in Jobs /\ Names(result, q.job)
    PROVE  WaitEnded(q, result) \in Wait /\ HoldsTrue(WaitEnded(q, result))
<1> DEFINE n == WaitEnded(q, result)
<1>1. /\ n \in Wait /\ n.at = "done" /\ n.job = q.job /\ n.result = result
      /\ n.copy = Absent /\ n.copies = [j \in Jobs |-> Absent] /\ n.reads = [j \in Jobs |-> NoRead]
    BY JobConstantsTyped DEF WaitEnded, Wait
<1> HIDE DEF n
<1>2. n \in Wait /\ HoldsTrue(n)
    BY <1>1, JobConstantsTyped DEF HoldsTrue, Names, Outcomes
<1> QED BY <1>2 DEF n

LEMMA AtHolds ==
    ASSUME NEW q \in Wait, HoldsTrue(q), NEW at \in Stages,
           at \notin {"start", "done"}, q.at # "done", q.job \in Jobs
    PROVE  At(q, at) \in Wait /\ HoldsTrue(At(q, at))
<1> DEFINE n == At(q, at)
<1>1. /\ n \in Wait /\ n.at = at /\ n.job = q.job /\ n.result = q.result
      /\ n.copy = q.copy /\ n.copies = q.copies /\ n.reads = q.reads
    BY DEF At, Wait, Stages
<1> HIDE DEF n
<1>2. n \in Wait /\ HoldsTrue(n)
    BY <1>1 DEF HoldsTrue
<1> QED BY <1>2 DEF n

LEMMA ForgetsHolds ==
    ASSUME NEW q \in Wait, HoldsTrue(q), NEW at \in Stages, at \notin {"start", "done"}, q.at # "done",
           q.job \in Jobs
    PROVE  Forgets(q, at) \in Wait /\ HoldsTrue(Forgets(q, at))
<1> DEFINE n == Forgets(q, at)
<1>1. /\ n \in Wait /\ n.at = at /\ n.job = q.job /\ n.result = q.result
      /\ n.copy = q.copy /\ n.copies = NoWait.copies /\ n.reads = NoWait.reads
    <2>1. NoWait.copies \in [Jobs -> Receipt] /\ NoWait.reads \in [Jobs -> Reads]
        BY JobConstantsTyped DEF Wait
    <2> QED BY <2>1 DEF Forgets, Wait, Stages
<1> HIDE DEF n
<1>2. n \in Wait /\ HoldsTrue(n)
    BY <1>1, JobConstantsTyped DEF HoldsTrue, Names, Outcomes
<1> QED BY <1>2 DEF n

LEMMA StartsHolds ==
    ASSUME NEW q \in Wait, HoldsTrue(q), NEW at \in Stages, NEW j \in Jobs, NEW copy \in Receipt,
           Names(copy.status, j), at \notin {"start", "done"}, q.at # "done"
    PROVE  Starts(q, j, at, copy) \in Wait /\ HoldsTrue(Starts(q, j, at, copy))
<1> DEFINE n == Starts(q, j, at, copy)
<1>1. /\ n \in Wait /\ n.at = at /\ n.job = j /\ n.result = q.result
      /\ n.copy = copy /\ n.copies = q.copies /\ n.reads = q.reads
    BY DEF Starts, Wait, Stages
<1> HIDE DEF n
<1>2. n \in Wait /\ HoldsTrue(n)
    BY <1>1 DEF HoldsTrue, Outcomes
<1> QED BY <1>2 DEF n

LEMMA FoundHolds ==
    ASSUME NEW q \in Wait, HoldsTrue(q), NEW j \in Jobs, NEW status \in Outcomes,
           Names(status, j), q.at = "start"
    PROVE  Found(q, j, status) \in Wait /\ HoldsTrue(Found(q, j, status))
<1> DEFINE n == Found(q, j, status)
<1>1. /\ n \in Wait /\ n.at = "done" /\ n.job = j /\ n.result = status
      /\ n.copy = q.copy /\ n.copies = q.copies /\ n.reads = q.reads
    BY DEF Found, Wait, Results
<1> HIDE DEF n
<1>2. n \in Wait /\ HoldsTrue(n)
    BY <1>1, JobConstantsTyped DEF HoldsTrue, Names, Outcomes
<1> QED BY <1>2 DEF n

LEMMA CopiesHolds ==
    ASSUME NEW q \in Wait, HoldsTrue(q), NEW at \in Stages, NEW copies \in [Jobs -> Receipt],
           \A j \in Jobs : Names(copies[j].status, j), q.job \in Jobs,
           at \notin {"start", "done"}, q.at # "done"
    PROVE  Copies(q, at, copies) \in Wait /\ HoldsTrue(Copies(q, at, copies))
<1> DEFINE n == Copies(q, at, copies)
<1>1. /\ n \in Wait /\ n.at = at /\ n.job = q.job /\ n.result = q.result
      /\ n.copy = q.copy /\ n.copies = copies /\ n.reads = q.reads
    BY DEF Copies, Wait, Stages
<1> HIDE DEF n
<1>2. n \in Wait /\ HoldsTrue(n)
    BY <1>1 DEF HoldsTrue
<1> QED BY <1>2 DEF n

LEMMA ReadingHolds ==
    ASSUME NEW q \in Wait, HoldsTrue(q), NEW reads \in [Jobs -> Reads],
           \A j \in Jobs : Names(reads[j].status, j)
    PROVE  WaitReads(q, reads) \in Wait /\ HoldsTrue(WaitReads(q, reads))
<1> DEFINE n == WaitReads(q, reads)
<1>1. /\ n \in Wait /\ n.at = q.at /\ n.job = q.job /\ n.result = q.result
      /\ n.copy = q.copy /\ n.copies = q.copies /\ n.reads = reads
    BY DEF WaitReads, Wait
<1> HIDE DEF n
<1>2. n \in Wait /\ HoldsTrue(n)
    BY <1>1 DEF HoldsTrue
<1> QED BY <1>2 DEF n

LEMMA CanceledHolds ==
    ASSUME NEW q \in Wait, HoldsTrue(q)
    PROVE  Canceled(q) \in Wait /\ HoldsTrue(Canceled(q))
<1> DEFINE n == Canceled(q)
<1>1. /\ n \in Wait /\ n.at = q.at /\ n.job = q.job /\ n.result = q.result
      /\ n.copy = q.copy /\ n.copies = q.copies /\ n.reads = q.reads
    BY DEF Canceled, Wait
<1> HIDE DEF n
<1>2. n \in Wait /\ HoldsTrue(n)
    BY <1>1 DEF HoldsTrue
<1> QED BY <1>2 DEF n

(* The steps of the source in these terms.                                    *)
LEMMA StepsAre ==
    ASSUME JobInv, NEW w \in Waiters
    PROVE  /\ \A at : Become(w, at) => waiter' = [waiter EXCEPT ![w] = At(waiter[w], at)]
           /\ \A at : Forget(w, at) => waiter' = [waiter EXCEPT ![w] = Forgets(waiter[w], at)]
           /\ \A result : EndWait(w, result) =>
                waiter' = [waiter EXCEPT ![w] = WaitEnded(waiter[w], result)]
<1>1. waiter \in [Waiters -> Wait]
    BY JobTypes
<1>2. ASSUME NEW at, Become(w, at) PROVE waiter' = [waiter EXCEPT ![w] = At(waiter[w], at)]
    BY <1>1, <1>2 DEF Become, At
<1>3. ASSUME NEW at, Forget(w, at) PROVE waiter' = [waiter EXCEPT ![w] = Forgets(waiter[w], at)]
    BY <1>1, <1>3 DEF Forget, Forgets
<1>4. ASSUME NEW result, EndWait(w, result)
      PROVE  waiter' = [waiter EXCEPT ![w] = WaitEnded(waiter[w], result)]
    BY <1>1, <1>4 DEF EndWait, WaitEnded
<1> QED BY <1>2, <1>3, <1>4

(* A process that ends, or goes on, and changes no receipt.                   *)
LEMMA WaiterEnds ==
    ASSUME JobInv, NEW w \in Waiters, NEW result \in Results, EndWait(w, result),
           result \in Outcomes => waiter[w].job \in Jobs /\ Names(result, waiter[w].job),
           UNCHANGED <<clock, remote, answers, receipt, index, quietUntil>>,
           roundLock' \in Waiters \cup {Nobody}
    PROVE  JobInv'
<1> DEFINE q == waiter[w]
           n == WaitEnded(q, result)
<1>1. q \in Wait /\ HoldsTrue(q)
    BY JobTypes
<1>2. waiter' = [waiter EXCEPT ![w] = n]
    BY StepsAre
<1>3. n \in Wait /\ HoldsTrue(n)
    BY <1>1, EndedHolds
<1>4. answers' \in 0 .. MaxAnswers /\ index' \subseteq Jobs
    BY JobTypes DEF SharedTyped
<1> HIDE DEF n
<1> QED BY <1>2, <1>3, <1>4, OnlyWaiter

LEMMA WaiterGoesOn ==
    ASSUME JobInv, NEW w \in Waiters, NEW at \in Stages, Become(w, at) \/ Forget(w, at),
           at \notin {"start", "done"}, waiter[w].at \notin {"start", "done"},
           UNCHANGED <<clock, remote, answers, receipt, quietUntil>>,
           index' \subseteq Jobs, roundLock' \in Waiters \cup {Nobody}
    PROVE  JobInv'
<1> DEFINE q == waiter[w]
<1>1. q \in Wait /\ HoldsTrue(q)
    BY JobTypes
<1>2. q.job \in Jobs /\ q.at # "done"
    BY <1>1 DEF HoldsTrue
<1>3. answers' \in 0 .. MaxAnswers
    BY JobTypes DEF SharedTyped
<1>4. CASE Become(w, at)
    <2> DEFINE n == At(q, at)
    <2>1. waiter' = [waiter EXCEPT ![w] = n]
        BY <1>4, StepsAre
    <2>2. n \in Wait /\ HoldsTrue(n)
        BY <1>1, <1>2, AtHolds
    <2> HIDE DEF n
    <2> QED BY <1>3, <2>1, <2>2, OnlyWaiter
<1>5. CASE Forget(w, at)
    <2> DEFINE n == Forgets(q, at)
    <2>1. waiter' = [waiter EXCEPT ![w] = n]
        BY <1>5, StepsAre
    <2>2. n \in Wait /\ HoldsTrue(n)
        BY <1>1, <1>2, ForgetsHolds
    <2> HIDE DEF n
    <2> QED BY <1>3, <2>1, <2>2, OnlyWaiter
<1> QED BY <1>4, <1>5

LEMMA ResolveHolds ==
    ASSUME JobInv, NEW w \in Waiters, Resolve(w)
    PROVE  JobInv'
<1> DEFINE q == waiter[w]
<1>1. q \in Wait /\ HoldsTrue(q) /\ q.at = "start"
    BY JobTypes DEF Resolve
<1>2. PICK j \in Jobs : waiter' = [waiter EXCEPT ![w] =
                IF Terminal(receipt[j])
                THEN [@ EXCEPT !.job = j, !.at = "done", !.result = receipt[j].status]
                ELSE [@ EXCEPT !.job = j, !.at = "register", !.copy = receipt[j]]]
    BY DEF Resolve
<1>3. receipt[j] \in Receipt /\ Names(receipt[j].status, j)
    BY JobTypes
<1>4. UNCHANGED <<clock, remote, answers, receipt, index, roundLock, quietUntil>>
    BY DEF Resolve
<1>5. answers' \in 0 .. MaxAnswers /\ index' \subseteq Jobs /\ roundLock' \in Waiters \cup {Nobody}
    BY <1>4, JobTypes DEF SharedTyped
<1>6. CASE Terminal(receipt[j])
    <2> DEFINE n == Found(q, j, receipt[j].status)
    <2>1. waiter' = [waiter EXCEPT ![w] = n]
        BY <1>2, <1>6 DEF Found
    <2>2. receipt[j].status \in Outcomes
        BY <1>6 DEF Terminal
    <2>3. n \in Wait /\ HoldsTrue(n)
        BY <1>1, <1>3, <2>2, FoundHolds
    <2> HIDE DEF n
    <2> QED BY <1>4, <1>5, <2>1, <2>3, OnlyWaiter
<1>7. CASE ~Terminal(receipt[j])
    <2> DEFINE n == Starts(q, j, "register", receipt[j])
    <2>1. waiter' = [waiter EXCEPT ![w] = n]
        BY <1>2, <1>7 DEF Starts
    <2>2. n \in Wait /\ HoldsTrue(n)
        BY <1>1, <1>3, StartsHolds DEF Stages
    <2> HIDE DEF n
    <2> QED BY <1>4, <1>5, <2>1, <2>2, OnlyWaiter
<1> QED BY <1>6, <1>7

LEMMA StartObservationHolds ==
    ASSUME JobInv, NEW w \in Waiters, StartObservation(w)
    PROVE  JobInv'
<1> DEFINE q == waiter[w]
           seen(j) == [Accepted EXCEPT !.status = remote[j], !.checked = answers + 1]
<1>1. q \in Wait /\ HoldsTrue(q) /\ q.at = "start" /\ waiter \in [Waiters -> Wait]
    BY JobTypes DEF StartObservation
<1>2. PICK j \in Jobs : waiter' = [waiter EXCEPT ![w].job = j, ![w].at = "observed", ![w].copy = seen(j)]
    BY DEF StartObservation
<1>3. answers + 1 \in 0 .. MaxAnswers /\ remote[j] \in {"running"} \cup Outcomes
    BY JobTypes DEF StartObservation, SharedTyped
<1>4. seen(j) \in Receipt /\ seen(j).status = remote[j]
    BY <1>3, JobConstantsTyped DEF Receipt
<1>5. /\ UNCHANGED <<clock, remote, receipt, index, roundLock, quietUntil>>
      /\ answers' = answers + 1
    BY DEF StartObservation
<1>6. index' \subseteq Jobs /\ roundLock' \in Waiters \cup {Nobody}
    BY <1>5, JobTypes DEF SharedTyped
<1> HIDE DEF seen
<1> DEFINE n == Starts(q, j, "observed", seen(j))
<1>7. waiter' = [waiter EXCEPT ![w] = n]
    BY <1>1, <1>2 DEF Starts
<1>8. Names(seen(j).status, j)
    BY <1>4 DEF Names
<1>9. n \in Wait /\ HoldsTrue(n)
    BY <1>1, <1>4, <1>8, StartsHolds DEF Stages
<1> HIDE DEF n
<1> QED BY <1>3, <1>5, <1>6, <1>7, <1>9, OnlyWaiter

(* A save of a receipt that names no false outcome.                           *)
LEMMA SaverMoves ==
    ASSUME JobInv, NEW w \in Waiters, NEW j \in Jobs, NEW r \in Receipt, Names(r.status, j),
           Save(j, r), NEW q \in Wait, HoldsTrue(q), waiter' = [waiter EXCEPT ![w] = q],
           UNCHANGED <<clock, remote, answers, index>>, roundLock' \in Waiters \cup {Nobody},
           quietUntil' \in [Jobs -> 0 .. MaxClock + PollInterval]
    PROVE  JobInv' /\ OnlyForward
<1>1. ReceiptsHold' /\ OnlyForward
    BY SaveHolds DEF JobInv
<1>2. SharedTyped'
    BY DEF JobInv, SharedTyped
<1> QED BY <1>1, <1>2, WaiterMoves

(* What a step at this place may rely on.                                     *)
LEMMA AtPlace ==
    ASSUME JobInv, NEW w \in Waiters
    PROVE  LET q == waiter[w] IN
           /\ q \in Wait /\ HoldsTrue(q) /\ q.copy \in Receipt
           /\ q.copies \in [Jobs -> Receipt] /\ q.reads \in [Jobs -> Reads]
           /\ q.at \notin {"start", "done"} =>
                /\ q.job \in Jobs /\ Names(q.copy.status, q.job)
                /\ receipt[q.job] \in Receipt /\ Names(receipt[q.job].status, q.job)
           /\ \A j \in Jobs : Names(q.copies[j].status, j) /\ Names(q.reads[j].status, j)
<1>1. waiter[w] \in Wait /\ HoldsTrue(waiter[w])
    BY JobTypes
<1>2. /\ waiter[w].copy \in Receipt /\ waiter[w].copies \in [Jobs -> Receipt]
      /\ waiter[w].reads \in [Jobs -> Reads]
    BY <1>1 DEF Wait
<1> QED BY <1>1, <1>2, JobTypes DEF HoldsTrue

LEMMA Unmoved ==
    ASSUME JobInv
    PROVE  /\ clock \in 0 .. MaxClock /\ answers \in 0 .. MaxAnswers /\ index \subseteq Jobs
           /\ roundLock \in Waiters \cup {Nobody} /\ Nobody \in Waiters \cup {Nobody}
           /\ quietUntil \in [Jobs -> 0 .. MaxClock + PollInterval]
           /\ remote \in [Jobs -> {"running"} \cup Outcomes]
BY JobTypes DEF SharedTyped

LEMMA SaveObservationHolds ==
    ASSUME JobInv, NEW w \in Waiters, SaveObservation(w)
    PROVE  JobInv' /\ OnlyForward
<1> DEFINE q == waiter[w]
           j == q.job
           r == q.copy
<1>1. /\ q.at = "observed" /\ Save(j, r)
      /\ quietUntil' = [quietUntil EXCEPT ![j] = IF receipt'[j].next = 0 THEN 0 ELSE @]
      /\ UNCHANGED <<clock, remote, answers, index, roundLock>>
    BY DEF SaveObservation
<1>2. q \in Wait /\ HoldsTrue(q) /\ j \in Jobs /\ r \in Receipt /\ Names(r.status, j)
    BY <1>1, AtPlace
<1>3. \E n \in Wait : HoldsTrue(n) /\ waiter' = [waiter EXCEPT ![w] = n]
    <2>1. CASE EndWait(w, "error")
        <3>1. waiter' = [waiter EXCEPT ![w] = WaitEnded(q, "error")]
            BY <2>1, StepsAre
        <3>2. "error" \in Results /\ "error" \notin Outcomes
            BY DEF Results, Outcomes
        <3> QED BY <1>2, <3>1, <3>2, EndedHolds
    <2>2. CASE Terminal(r) /\ EndWait(w, r.status)
        <3>1. waiter' = [waiter EXCEPT ![w] = WaitEnded(q, r.status)]
            BY <2>2, StepsAre
        <3>2. r.status \in Results
            BY <2>2 DEF Terminal, Results
        <3> QED BY <1>2, <3>1, <3>2, EndedHolds
    <2>3. CASE Become(w, "register")
        <3>1. waiter' = [waiter EXCEPT ![w] = At(q, "register")]
            BY <2>3, StepsAre
        <3>2. "register" \in Stages
            BY DEF Stages
        <3> QED BY <1>1, <1>2, <3>1, <3>2, AtHolds
    <2> QED BY <2>1, <2>2, <2>3 DEF SaveObservation
<1>4. receipt' \in [Jobs -> Receipt]
    BY <1>1, <1>2, SaveHolds DEF JobInv, ReceiptsHold
<1>5. quietUntil' \in [Jobs -> 0 .. MaxClock + PollInterval]
    BY <1>1, <1>2, <1>4, NextObserved
<1> HIDE DEF q, j, r
<1> QED BY <1>1, <1>2, <1>3, <1>5, Unmoved, SaverMoves

LEMMA RegisterSaveHolds ==
    ASSUME JobInv, NEW w \in Waiters, RegisterSave(w)
    PROVE  JobInv' /\ OnlyForward
<1> DEFINE q == waiter[w]
           j == q.job
           r == [q.copy EXCEPT !.failures = 0, !.next = 0, !.manual = FALSE,
                               !.until = clock + WaitLimit]
           n == Starts(q, j, "index", r)
<1>1. /\ q.at = "register" /\ clock + WaitLimit <= MaxClock /\ Save(j, r)
      /\ quietUntil' = [quietUntil EXCEPT ![j] = IF receipt'[j].next = 0 THEN 0 ELSE @]
      /\ waiter' = [waiter EXCEPT ![w].at = "index", ![w].copy = r]
      /\ UNCHANGED <<clock, remote, answers, index, roundLock>>
    BY DEF RegisterSave
<1>2. q \in Wait /\ HoldsTrue(q) /\ j \in Jobs /\ q.copy \in Receipt /\ Names(q.copy.status, j)
    BY <1>1, AtPlace
<1>3. clock + WaitLimit \in 0 .. MaxClock + WaitLimit /\ 0 \in 0 .. MaxClock + PollInterval
    BY <1>1, Unmoved
<1>4. r \in Receipt /\ r.status = q.copy.status
    BY <1>2, <1>3 DEF Receipt
<1> HIDE DEF r
<1>5. n \in Wait /\ HoldsTrue(n)
    BY <1>1, <1>2, <1>4, StartsHolds DEF Stages
<1>6. waiter' = [waiter EXCEPT ![w] = n]
    BY <1>1, <1>2, JobTypes DEF Starts, Wait
<1>7. receipt' \in [Jobs -> Receipt]
    BY <1>1, <1>2, <1>4, SaveHolds DEF JobInv, ReceiptsHold
<1>8. quietUntil' \in [Jobs -> 0 .. MaxClock + PollInterval]
    BY <1>1, <1>2, <1>7, NextObserved
<1>9. Names(r.status, j)
    BY <1>2, <1>4
<1> HIDE DEF n, q, j
<1> QED BY <1>1, <1>2, <1>4, <1>5, <1>6, <1>8, <1>9, Unmoved, SaverMoves

LEMMA RegisterIndexHolds ==
    ASSUME JobInv, NEW w \in Waiters, RegisterIndex(w)
    PROVE  JobInv'
<1>1. /\ waiter[w].at = "index"
      /\ UNCHANGED <<clock, remote, answers, receipt, roundLock, quietUntil>>
    BY DEF RegisterIndex
<1>2. waiter[w].job \in Jobs
    BY <1>1, AtPlace
<1>3. "loop" \in Stages /\ "error" \in Results /\ "error" \notin Outcomes
    BY DEF Stages, Results, Outcomes
<1>4. CASE index' = Registered(waiter[w].job) /\ Become(w, "loop")
    <2>1. index' \subseteq Jobs
        BY <1>2, <1>4, Unmoved DEF Registered
    <2> QED BY <1>1, <1>3, <1>4, <2>1, Unmoved, WaiterGoesOn
<1>5. CASE index' = index /\ EndWait(w, "error")
    BY <1>1, <1>3, <1>5, Unmoved, WaiterEnds
<1> QED BY <1>4, <1>5 DEF RegisterIndex

LEMMA LookHolds ==
    ASSUME JobInv, NEW w \in Waiters, Look(w)
    PROVE  JobInv'
<1> DEFINE q == waiter[w]
           j == q.job
           r == receipt[j]
           Go(at) == waiter' = [waiter EXCEPT ![w].at = at, ![w].copies[j] = r]
<1>1. q.at = "loop" /\ UNCHANGED <<clock, remote, answers, receipt, index, roundLock, quietUntil>>
    BY DEF Look
<1>2. /\ q \in Wait /\ HoldsTrue(q) /\ j \in Jobs /\ r \in Receipt /\ Names(r.status, j)
      /\ q.copies \in [Jobs -> Receipt] /\ \A i \in Jobs : Names(q.copies[i].status, i)
    BY <1>1, AtPlace
<1>3. CASE Terminal(r) /\ EndWait(w, r.status)
    <2>1. r.status \in Results
        BY <1>3 DEF Terminal, Results
    <2> QED BY <1>1, <1>2, <1>3, <2>1, Unmoved, WaiterEnds
<1>4. ASSUME NEW at \in {"stop", "sleep"}, Go(at)
      PROVE  JobInv'
    <2> DEFINE copies == [q.copies EXCEPT ![j] = r]
               n == Copies(q, at, copies)
    <2>1. copies \in [Jobs -> Receipt] /\ \A i \in Jobs : Names(copies[i].status, i)
        BY <1>2
    <2>2. waiter' = [waiter EXCEPT ![w] = n]
        BY <1>2, <1>4, JobTypes DEF Copies, Wait
    <2>3. at \in Stages /\ at \notin {"start", "done"}
        BY DEF Stages
    <2> HIDE DEF copies
    <2>4. n \in Wait /\ HoldsTrue(n)
        BY <1>1, <1>2, <2>1, <2>3, CopiesHolds
    <2> HIDE DEF n
    <2> QED BY <1>1, <2>2, <2>4, Unmoved, OnlyWaiter
<1>5. ASSUME NEW result \in {"canceled", "unavailable"}, EndWait(w, result)
      PROVE  JobInv'
    <2>1. result \in Results /\ result \notin Outcomes
        BY DEF Results, Outcomes
    <2> QED BY <1>1, <1>5, <2>1, Unmoved, WaiterEnds
<1>6. CASE Become(w, "lock")
    <2>1. "lock" \in Stages
        BY DEF Stages
    <2> QED BY <1>1, <1>6, <2>1, Unmoved, WaiterGoesOn
<1>7. \/ Terminal(r) /\ EndWait(w, r.status)
      \/ Go("stop") \/ Go("sleep") \/ EndWait(w, "canceled") \/ EndWait(w, "unavailable")
      \/ Become(w, "lock")
    BY DEF Look
<1> HIDE DEF Go
<1> QED BY <1>3, <1>4, <1>5, <1>6, <1>7

LEMMA StopObservingHolds ==
    ASSUME JobInv, NEW w \in Waiters, StopObserving(w)
    PROVE  JobInv' /\ OnlyForward
<1> DEFINE q == waiter[w]
           j == q.job
           r == [q.copies[j] EXCEPT !.manual = TRUE]
           n == WaitEnded(q, "limit")
<1>1. /\ q.at = "stop" /\ Save(j, r) /\ EndWait(w, "limit")
      /\ UNCHANGED <<clock, remote, answers, index, roundLock, quietUntil>>
    BY DEF StopObserving
<1>2. /\ q \in Wait /\ HoldsTrue(q) /\ j \in Jobs
      /\ q.copies[j] \in Receipt /\ Names(q.copies[j].status, j)
    BY <1>1, AtPlace
<1>3. r \in Receipt /\ r.status = q.copies[j].status
    BY <1>2 DEF Receipt
<1>4. Names(r.status, j)
    BY <1>2, <1>3
<1> HIDE DEF r
<1>5. waiter' = [waiter EXCEPT ![w] = n]
    BY <1>1, StepsAre
<1>6. "limit" \in Results /\ "limit" \notin Outcomes
    BY DEF Results, Outcomes
<1>7. n \in Wait /\ HoldsTrue(n)
    BY <1>2, <1>6, EndedHolds
<1> HIDE DEF n, q, j
<1> QED BY <1>1, <1>2, <1>3, <1>4, <1>5, <1>7, Unmoved, SaverMoves

LEMMA WakeUpHolds ==
    ASSUME JobInv, NEW w \in Waiters, WakeUp(w)
    PROVE  JobInv'
<1>1. /\ waiter[w].at = "sleep"
      /\ UNCHANGED <<clock, remote, answers, receipt, index, roundLock, quietUntil>>
      /\ EndWait(w, "canceled") \/ Forget(w, "loop")
    BY DEF WakeUp
<1>2. "loop" \in Stages /\ "canceled" \in Results /\ "canceled" \notin Outcomes
    BY DEF Stages, Results, Outcomes
<1> QED BY <1>1, <1>2, Unmoved, WaiterEnds, WaiterGoesOn

LEMMA TakeRoundHolds ==
    ASSUME JobInv, NEW w \in Waiters, TakeRound(w)
    PROVE  JobInv'
<1>1. /\ waiter[w].at = "lock"
      /\ UNCHANGED <<clock, remote, answers, receipt, index, quietUntil>>
      /\ roundLock' \in {roundLock, w}
      /\ Become(w, "loop") \/ EndWait(w, "canceled") \/ Become(w, "collect")
    BY DEF TakeRound
<1>2. /\ "loop" \in Stages /\ "collect" \in Stages
      /\ "canceled" \in Results /\ "canceled" \notin Outcomes
    BY DEF Stages, Results, Outcomes
<1>3. roundLock' \in Waiters \cup {Nobody} /\ index' \subseteq Jobs
    BY <1>1, Unmoved
<1> QED BY <1>1, <1>2, <1>3, WaiterEnds, WaiterGoesOn

LEMMA CollectRoundHolds ==
    ASSUME JobInv, NEW w \in Waiters, CollectRound(w)
    PROVE  JobInv'
<1> DEFINE q == waiter[w]
           due == {q.job} \cup {i \in Jobs : DueTogether(i)}
           reads == [i \in Jobs |-> [NoRead EXCEPT !.at = IF i \in due THEN "due" ELSE "none"]]
<1>1. /\ q.at = "collect"
      /\ UNCHANGED <<clock, remote, answers, receipt, index, quietUntil>>
      /\ \/ roundLock' = Nobody /\ Become(w, "loop")
         \/ /\ waiter' = [waiter EXCEPT ![w].at = "read", ![w].copies = receipt, ![w].reads = reads]
            /\ UNCHANGED roundLock
    BY DEF CollectRound
<1>2. q \in Wait /\ HoldsTrue(q) /\ q.job \in Jobs
    BY <1>1, AtPlace
<1>3. CASE roundLock' = Nobody /\ Become(w, "loop")
    <2>1. "loop" \in Stages
        BY DEF Stages
    <2> QED BY <1>1, <1>3, <2>1, Unmoved, WaiterGoesOn
<1>4. CASE /\ waiter' = [waiter EXCEPT ![w].at = "read", ![w].copies = receipt, ![w].reads = reads]
           /\ UNCHANGED roundLock
    <2> DEFINE m == Copies(q, "read", receipt)
               n == WaitReads(m, reads)
    <2>1. reads \in [Jobs -> Reads] /\ \A i \in Jobs : reads[i].status = "running"
        BY JobConstantsTyped DEF Reads
    <2>2. \A i \in Jobs : Names(reads[i].status, i)
        BY <2>1 DEF Names, Outcomes
    <2> HIDE DEF reads
    <2>3. waiter' = [waiter EXCEPT ![w] = n]
        BY <1>2, <1>4, JobTypes DEF Copies, WaitReads, Wait
    <2>4. "read" \in Stages /\ receipt \in [Jobs -> Receipt]
          /\ \A i \in Jobs : Names(receipt[i].status, i)
        BY JobTypes DEF Stages
    <2>5. m \in Wait /\ HoldsTrue(m)
        BY <1>1, <1>2, <2>4, CopiesHolds
    <2> HIDE DEF m
    <2>6. n \in Wait /\ HoldsTrue(n)
        BY <2>1, <2>2, <2>5, ReadingHolds
    <2> HIDE DEF n
    <2> QED BY <1>1, <1>4, <2>3, <2>6, Unmoved, OnlyWaiter
<1> QED BY <1>1, <1>3, <1>4

(* One job of a round is read, or its reading fails, or is saved.             *)
LEMMA ReadMoves ==
    ASSUME JobInv, NEW w \in Waiters, NEW j \in Jobs, NEW read \in Reads, Names(read.status, j),
           waiter' = [waiter EXCEPT ![w].reads[j] = read]
    PROVE  \E n \in Wait : HoldsTrue(n) /\ waiter' = [waiter EXCEPT ![w] = n]
<1> DEFINE q == waiter[w]
           reads == [q.reads EXCEPT ![j] = read]
           n == WaitReads(q, reads)
<1>1. /\ q \in Wait /\ HoldsTrue(q) /\ q.reads \in [Jobs -> Reads]
      /\ \A i \in Jobs : Names(q.reads[i].status, i)
    BY AtPlace
<1>2. reads \in [Jobs -> Reads] /\ \A i \in Jobs : Names(reads[i].status, i)
    BY <1>1
<1>3. waiter' = [waiter EXCEPT ![w] = n]
    BY <1>1, JobTypes DEF WaitReads, Wait
<1> HIDE DEF reads
<1>4. n \in Wait /\ HoldsTrue(n)
    BY <1>1, <1>2, ReadingHolds
<1> QED BY <1>3, <1>4

LEMMA ReadStatusHolds ==
    ASSUME JobInv, NEW w \in Waiters, NEW j \in Jobs, ReadStatus(w, j)
    PROVE  JobInv'
<1> DEFINE read == [at |-> "read", status |-> remote[j], checked |-> answers + 1]
<1>1. /\ answers < MaxAnswers /\ answers' = answers + 1
      /\ waiter' = [waiter EXCEPT ![w].reads[j] = read]
      /\ UNCHANGED <<clock, remote, receipt, index, roundLock, quietUntil>>
    BY DEF ReadStatus
<1>2. answers + 1 \in 0 .. MaxAnswers /\ remote[j] \in {"running"} \cup Outcomes
    BY <1>1, Unmoved
<1>3. read \in Reads /\ Names(read.status, j)
    BY <1>2 DEF Reads, Names
<1> HIDE DEF read
<1>4. \E n \in Wait : HoldsTrue(n) /\ waiter' = [waiter EXCEPT ![w] = n]
    BY <1>1, <1>3, ReadMoves
<1> QED BY <1>1, <1>2, <1>4, Unmoved, OnlyWaiter

LEMMA ReadFailsHolds ==
    ASSUME JobInv, NEW w \in Waiters, NEW j \in Jobs, ReadFails(w, j)
    PROVE  JobInv'
<1> DEFINE read == [waiter[w].reads[j] EXCEPT !.at = "failed"]
<1>1. /\ waiter' = [waiter EXCEPT ![w].reads[j] = read]
      /\ UNCHANGED <<clock, remote, answers, receipt, index, roundLock, quietUntil>>
    BY DEF ReadFails
<1>2. waiter[w].reads[j] \in Reads /\ Names(waiter[w].reads[j].status, j)
    BY AtPlace
<1>3. read \in Reads /\ Names(read.status, j)
    BY <1>2 DEF Reads
<1> HIDE DEF read
<1>4. \E n \in Wait : HoldsTrue(n) /\ waiter' = [waiter EXCEPT ![w] = n]
    BY <1>1, <1>3, ReadMoves
<1> QED BY <1>1, <1>4, Unmoved, OnlyWaiter

LEMMA RoundGoesOn ==
    ASSUME JobInv, NEW w \in Waiters, ReadAll(w) \/ EndRound(w)
    PROVE  JobInv'
<1>1. "save" \in Stages /\ "loop" \in Stages
    BY DEF Stages
<1>2. CASE ReadAll(w)
    BY <1>1, <1>2, Unmoved, WaiterGoesOn DEF ReadAll
<1>3. CASE EndRound(w)
    BY <1>1, <1>3, Unmoved, WaiterGoesOn DEF EndRound
<1> QED BY <1>2, <1>3

LEMMA SaveReadHolds ==
    ASSUME JobInv, NEW w \in Waiters, NEW j \in Jobs, SaveRead(w, j)
    PROVE  JobInv' /\ OnlyForward
<1> DEFINE q == waiter[w]
           c == q.copies[j]
           read == q.reads[j]
           r == Observed(c, read)
<1>1. /\ q.at = "save" /\ Save(j, r) /\ UNCHANGED <<clock, remote, answers, index>>
      /\ \/ roundLock' = Nobody /\ EndWait(w, "error")
         \/ waiter' = [waiter EXCEPT ![w].reads[j].at = "none"] /\ UNCHANGED roundLock
      /\ \/ receipt'[j].next = r.next /\ quietUntil' = [quietUntil EXCEPT ![j] = r.next]
         \/ quietUntil' = quietUntil
    BY DEF SaveRead
<1>2. /\ q \in Wait /\ HoldsTrue(q) /\ c \in Receipt /\ read \in Reads
      /\ Names(c.status, j) /\ Names(read.status, j)
    BY AtPlace
<1>3. clock + PollInterval \in 0 .. MaxClock + PollInterval
    BY Unmoved
<1>4. r \in Receipt /\ r.next = clock + PollInterval /\ r.status \in {c.status, read.status}
    <2>1. c.failures + 1 \in Nat /\ 0 \in Nat
        BY <1>2 DEF Receipt
    <2>2. read.status \in {"absent", "running"} \cup Outcomes /\ read.checked \in 0 .. MaxAnswers
        BY <1>2 DEF Reads
    <2> HIDE DEF c, read, q
    <2>3. CASE read.at = "failed"
        BY <1>2, <1>3, <2>1, <2>3 DEF Observed, Receipt
    <2>4. CASE read.at # "failed"
        BY <1>2, <1>3, <2>1, <2>2, <2>4 DEF Observed, Receipt
    <2> QED BY <2>3, <2>4
<1>5. Names(r.status, j)
    BY <1>2, <1>4
<1> HIDE DEF r
<1>6. \E n \in Wait : HoldsTrue(n) /\ waiter' = [waiter EXCEPT ![w] = n]
    <2>1. CASE EndWait(w, "error")
        <3>1. waiter' = [waiter EXCEPT ![w] = WaitEnded(q, "error")]
            BY <2>1, StepsAre
        <3>2. "error" \in Results /\ "error" \notin Outcomes
            BY DEF Results, Outcomes
        <3> QED BY <1>2, <3>1, <3>2, EndedHolds
    <2>2. CASE waiter' = [waiter EXCEPT ![w].reads[j].at = "none"]
        <3> DEFINE saved == [read EXCEPT !.at = "none"]
        <3>1. saved \in Reads /\ Names(saved.status, j)
            BY <1>2 DEF Reads
        <3>2. waiter' = [waiter EXCEPT ![w].reads[j] = saved]
            BY <2>2
        <3> HIDE DEF saved
        <3> QED BY <3>1, <3>2, ReadMoves
    <2> QED BY <1>1, <2>1, <2>2
<1>7. quietUntil' \in [Jobs -> 0 .. MaxClock + PollInterval]
    BY <1>1, <1>3, <1>4, Unmoved
<1>8. roundLock' \in Waiters \cup {Nobody}
    BY <1>1, Unmoved
<1> HIDE DEF q, c, read
<1> QED BY <1>1, <1>4, <1>5, <1>6, <1>7, <1>8, SaverMoves

LEMMA SurroundingsHold ==
    ASSUME JobInv,
           \/ Tick \/ \E j \in Jobs : JobFinishes(j)
           \/ \E w \in Waiters : Interrupt(w) \/ KillWaiter(w)
    PROVE  JobInv'
<1>1. CASE Tick
    <2>1. SharedTyped'
        BY <1>1, JobTypes DEF Tick, SharedTyped
    <2>2. ReceiptsHold' /\ WaitersHold'
        BY <1>1 DEF Tick, JobInv, ReceiptsHold, WaitersHold, HoldsTrue, Names
    <2> QED BY <2>1, <2>2 DEF JobInv
<1>2. ASSUME NEW j \in Jobs, JobFinishes(j)
      PROVE  JobInv'
    <2>1. PICK o \in Outcomes : remote' = [remote EXCEPT ![j] = o]
        BY <1>2 DEF JobFinishes
    <2>2. /\ remote[j] = "running"
          /\ UNCHANGED <<clock, answers, receipt, index, roundLock, waiter, quietUntil>>
        BY <1>2 DEF JobFinishes
    <2>3. \A i \in Jobs : remote[i] \in Outcomes => remote'[i] = remote[i]
        BY <2>1, <2>2, Unmoved DEF Outcomes
    <2>4. SharedTyped'
        BY <2>1, <2>2, JobTypes DEF SharedTyped
    <2>5. \A i \in Jobs : \A status : Names(status, i) => Names(status, i)'
        BY <2>3 DEF Names
    <2>6. ReceiptsHold'
        BY <2>2, <2>5 DEF JobInv, ReceiptsHold
    <2>7. \A w \in Waiters : HoldsTrue(waiter[w])'
        BY <2>2, <2>5, JobTypes DEF HoldsTrue
    <2>8. WaitersHold'
        BY <2>2, <2>7 DEF JobInv, WaitersHold
    <2> QED BY <2>4, <2>6, <2>8 DEF JobInv
<1>3. ASSUME NEW w \in Waiters, Interrupt(w)
      PROVE  JobInv'
    <2> DEFINE n == Canceled(waiter[w])
    <2>1. /\ waiter' = [waiter EXCEPT ![w].canceled = TRUE]
          /\ UNCHANGED <<clock, remote, answers, receipt, index, roundLock, quietUntil>>
        BY <1>3 DEF Interrupt
    <2>2. waiter' = [waiter EXCEPT ![w] = n]
        BY <2>1 DEF Canceled
    <2>3. n \in Wait /\ HoldsTrue(n)
        BY JobTypes, CanceledHolds
    <2> HIDE DEF n
    <2> QED BY <2>1, <2>2, <2>3, Unmoved, OnlyWaiter
<1>4. ASSUME NEW w \in Waiters, KillWaiter(w)
      PROVE  JobInv'
    <2>1. /\ EndWait(w, "killed") /\ roundLock' \in {roundLock, Nobody}
          /\ UNCHANGED <<clock, remote, answers, receipt, index, quietUntil>>
        BY <1>4 DEF KillWaiter
    <2>2. "killed" \in Results /\ "killed" \notin Outcomes
        BY DEF Results, Outcomes
    <2>3. roundLock' \in Waiters \cup {Nobody}
        BY <2>1, Unmoved
    <2> QED BY <2>1, <2>2, <2>3, WaiterEnds
<1> QED BY <1>1, <1>2, <1>3, <1>4

LEMMA JobInvInit ==
    ASSUME JobInit
    PROVE  JobInv
<1>1. SharedTyped
    BY DEF JobInit, SharedTyped
<1>2. ReceiptsHold
    BY JobConstantsTyped DEF JobInit, ReceiptsHold, Names, Outcomes
<1>3. HoldsTrue(NoWait)
    BY JobConstantsTyped DEF HoldsTrue, Names, Outcomes
<1>4. WaitersHold
    BY <1>3, JobConstantsTyped DEF JobInit, WaitersHold
<1> QED BY <1>1, <1>2, <1>4 DEF JobInv

LEMMA JobInvKept ==
    ASSUME JobInv, [JobNext]_jobVars
    PROVE  JobInv'
<1>1. CASE UNCHANGED jobVars
    BY <1>1 DEF jobVars, JobInv, SharedTyped, ReceiptsHold, WaitersHold, HoldsTrue, Names
<1>2. ASSUME NEW w \in Waiters, WaiterStep(w)
      PROVE  JobInv'
    BY <1>2, ResolveHolds, StartObservationHolds, SaveObservationHolds, RegisterSaveHolds,
       RegisterIndexHolds, LookHolds, StopObservingHolds, WakeUpHolds, TakeRoundHolds,
       CollectRoundHolds, RoundGoesOn, ReadStatusHolds, ReadFailsHolds, SaveReadHolds DEF WaiterStep
<1> QED BY <1>1, <1>2, SurroundingsHold DEF JobNext

(* A saved answer is not replaced by an older one, whatever copy is saved.    *)
LEMMA ReceiptsAdvance ==
    ASSUME JobInv, [JobNext]_jobVars
    PROVE  OnlyForward
<1>1. CASE UNCHANGED receipt
    <2>1. \A i \in Jobs : receipt[i].checked \in Nat
        BY JobTypes DEF Receipt
    <2> QED BY <1>1, <2>1 DEF OnlyForward
<1>2. ASSUME NEW w \in Waiters, WaiterStep(w)
      PROVE  OnlyForward
    <2>1. CASE \/ Resolve(w) \/ StartObservation(w) \/ RegisterIndex(w) \/ Look(w) \/ WakeUp(w)
               \/ TakeRound(w) \/ CollectRound(w) \/ ReadAll(w) \/ EndRound(w)
               \/ \E j \in Jobs : ReadStatus(w, j) \/ ReadFails(w, j)
        BY <1>1, <2>1 DEF Resolve, StartObservation, RegisterIndex, Look, WakeUp, TakeRound,
                          CollectRound, ReadAll, EndRound, ReadStatus, ReadFails
    <2> QED BY <1>2, <2>1, SaveObservationHolds, RegisterSaveHolds, StopObservingHolds,
               SaveReadHolds DEF WaiterStep
<1>3. CASE \/ Tick \/ \E j \in Jobs : JobFinishes(j)
           \/ \E w \in Waiters : Interrupt(w) \/ KillWaiter(w)
    BY <1>1, <1>3 DEF Tick, JobFinishes, Interrupt, KillWaiter
<1> QED BY <1>1, <1>2, <1>3 DEF JobNext, jobVars

(* An outcome that a receipt holds or that `job wait` returns is the outcome  *)
(* of that job at Tableau, it stays, and no saved answer is replaced by an     *)
(* older one, for any number of processes and jobs, however stale the receipts *)
(* they save and whatever fails.                                              *)
THEOREM OutcomesStayTrue == JobSpec => OutcomesHold
<1>1. JobInv => JobTypeOK /\ OutcomeIsTheJobs
    BY JobTypes DEF HoldsTrue, Names, Terminal, OutcomeIsTheJobs
<1>2. JobInv /\ [JobNext]_jobVars =>
        [\A j \in Jobs :
            /\ receipt'[j].checked >= receipt[j].checked
            /\ Terminal(receipt[j]) => receipt'[j].status = receipt[j].status]_jobVars
    BY ReceiptsAdvance DEF OnlyForward
<1> QED BY <1>1, <1>2, JobInvInit, JobInvKept, PTL DEF JobSpec, OutcomesHold, ObservationsOnlyAdvance
=============================================================================
