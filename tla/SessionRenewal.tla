--------------------------- MODULE SessionRenewal ---------------------------
(* Requests of one command that share one Tableau session:                    *)
(* Transport.Do (src/internal/tableau/transport.go) sends a request, renews   *)
(* the session when Tableau rejects its token and sends once more;            *)
(* session.Renew (src/internal/auth/auth.go) lets the requests whose token    *)
(* was rejected share one sign-in attempt, the flight.                        *)
(*                                                                            *)
(* Tokens are numbered as they are issued.  An attempt runs detached from the *)
(* request that started it and is cancelled when its last waiter has left.    *)
EXTENDS Naturals

CONSTANTS
    Calls,        \* requests, each in its own goroutine with its own context
    MaxTokens     \* bound: tokens issued

ASSUME RenewalConstants == MaxTokens \in Nat \ {0}

VARIABLES
    sessionToken, \* the token the session sends
    liveToken,    \* the token Tableau accepts; 0 when it accepts none
    issuedTokens, \* tokens issued so far
    flight,       \* the current renewal attempt
    call          \* each request

renewalVars == <<sessionToken, liveToken, issuedTokens, flight, call>>

NoFlight == [at |-> "none", token |-> 0, waiters |-> {}, abandoned |-> FALSE]

RenewalTypeOK ==
    /\ sessionToken \in 1 .. MaxTokens
    /\ liveToken \in 0 .. MaxTokens
    /\ issuedTokens \in 1 .. MaxTokens
    /\ flight \in [at : {"none", "started", "signIn", "signed"}, token : 0 .. MaxTokens,
                   waiters : SUBSET Calls, abandoned : BOOLEAN]
    /\ call \in [Calls ->
            [at : {"ready", "sent", "renew", "joined", "waiting", "resend", "resent", "done"},
             token : 0 .. MaxTokens,       \* the token the last attempt sent
             answer : {"none", "ok", "rejected", "error", "renewFailed", "canceled"},
             canceled : BOOLEAN,           \* is its context done?
             effects : 0 .. 2]]            \* times Tableau carried the request out

RenewalInit ==
    /\ sessionToken = 1 /\ liveToken = 1 /\ issuedTokens = 1
    /\ flight = NoFlight
    /\ call = [c \in Calls |-> [at |-> "ready", token |-> 0, answer |-> "none",
                                canceled |-> FALSE, effects |-> 0]]

-----------------------------------------------------------------------------
(* Transport.Do and send.                                                     *)

Send(c) ==
    /\ call[c].at \in {"ready", "resend"}
    /\ call' = [call EXCEPT ![c].at = IF @ = "ready" THEN "sent" ELSE "resent",
                            ![c].token = sessionToken]
    /\ UNCHANGED <<sessionToken, liveToken, issuedTokens, flight>>

(* Tableau checks the token before it carries the request out; the answer may *)
(* be lost, stall or be unreadable, and the request may never arrive.         *)
Answer(c) ==
    /\ call[c].at \in {"sent", "resent"}
    /\ \E a \in {"ok", "error", "rejected"}, n \in {0, 1} :
        /\ a = "ok" => n = 1
        /\ a = "rejected" => n = 0
        /\ (call[c].token # liveToken) = (a = "rejected") \/ (a = "error" /\ n = 0)
        /\ call' = [call EXCEPT
                ![c].answer = a,
                ![c].effects = @ + n,
                ![c].at = IF call[c].at = "sent" /\ a = "rejected" THEN "renew" ELSE "done"]
    /\ UNCHANGED <<sessionToken, liveToken, issuedTokens, flight>>

-----------------------------------------------------------------------------
(* session.Renew.                                                             *)

End(c, answer) == call' = [call EXCEPT ![c].at = "done", ![c].answer = answer]

RenewCanceled(c) ==
    /\ call[c].at = "renew" /\ call[c].canceled
    /\ End(c, "canceled")
    /\ UNCHANGED <<sessionToken, liveToken, issuedTokens, flight>>

(* Start an attempt, join the one for the same token, or wait for another.    *)
EnterFlight(c) ==
    /\ call[c].at = "renew" /\ ~call[c].canceled
    /\ IF flight.at = "none"
       THEN /\ flight' = [at |-> "started", token |-> call[c].token,
                          waiters |-> {c}, abandoned |-> FALSE]
            /\ call' = [call EXCEPT ![c].at = "joined"]
       ELSE IF flight.token = call[c].token /\ ~flight.abandoned
       THEN /\ flight' = [flight EXCEPT !.waiters = @ \cup {c}]
            /\ call' = [call EXCEPT ![c].at = "joined"]
       ELSE /\ call' = [call EXCEPT ![c].at = "waiting"]
            /\ UNCHANGED flight
    /\ UNCHANGED <<sessionToken, liveToken, issuedTokens>>

(* A waiter's context ends: the last one to leave abandons the attempt.       *)
LeaveFlight(c) ==
    /\ call[c].at \in {"joined", "waiting"} /\ call[c].canceled
    /\ End(c, "canceled")
    /\ flight' = IF call[c].at = "waiting" THEN flight
                 ELSE [flight EXCEPT !.waiters = @ \ {c},
                                     !.abandoned = @ \/ flight.waiters = {c}]
    /\ UNCHANGED <<sessionToken, liveToken, issuedTokens>>

(* Mutant: requests that wait for the next attempt are not woken.             *)
EndFlightOnly(ok) ==
    /\ flight' = NoFlight
    /\ call' = [c \in Calls |->
            CASE c \in flight.waiters /\ ok  -> [call[c] EXCEPT !.at = "resend"]
              [] c \in flight.waiters /\ ~ok -> [call[c] EXCEPT !.at = "done", !.answer = "renewFailed"]
              [] OTHER                       -> call[c]]

(* The attempt ends: waiters that joined take its result, the others try for  *)
(* themselves.  A joined request goes on to send again or fails.              *)
EndFlight(ok) ==
    /\ flight' = NoFlight
    /\ call' = [c \in Calls |->
            CASE c \in flight.waiters /\ ok  -> [call[c] EXCEPT !.at = "resend"]
              [] c \in flight.waiters /\ ~ok -> [call[c] EXCEPT !.at = "done", !.answer = "renewFailed"]
              [] call[c].at = "waiting"      -> [call[c] EXCEPT !.at = "renew"]
              [] OTHER                       -> call[c]]

(* Mutant: every attempt signs in, also when the token was replaced.          *)
RenewAlways ==
    /\ flight.at = "started"
    /\ flight' = [flight EXCEPT !.at = "signIn"]
    /\ UNCHANGED <<sessionToken, liveToken, issuedTokens, call>>

(* renew: nothing to do when the session no longer carries the token.         *)
RenewUnneeded ==
    /\ flight.at = "started" /\ sessionToken # flight.token
    /\ EndFlight(TRUE)
    /\ UNCHANGED <<sessionToken, liveToken, issuedTokens>>

RenewNeeded ==
    /\ flight.at = "started" /\ sessionToken = flight.token
    /\ flight' = [flight EXCEPT !.at = "signIn"]
    /\ UNCHANGED <<sessionToken, liveToken, issuedTokens, call>>

(* signIn at Tableau; then the answer arrives and replaces the token, unless  *)
(* it is lost, refused, for another user or cancelled.                        *)
SignInAgain ==
    /\ flight.at = "signIn" /\ issuedTokens < MaxTokens
    /\ issuedTokens' = issuedTokens + 1
    /\ liveToken' = issuedTokens + 1
    /\ flight' = [flight EXCEPT !.at = "signed"]
    /\ UNCHANGED <<sessionToken, call>>

ReplaceToken ==
    /\ flight.at = "signed"
    /\ sessionToken' = issuedTokens
    /\ EndFlight(TRUE)
    /\ UNCHANGED <<liveToken, issuedTokens>>

RenewFails ==
    /\ flight.at \in {"signIn", "signed"} \/ (flight.at # "none" /\ flight.abandoned)
    /\ EndFlight(FALSE)
    /\ UNCHANGED <<sessionToken, liveToken, issuedTokens>>

-----------------------------------------------------------------------------
(* What happens around it.                                                    *)

CancelCall(c) ==
    /\ ~call[c].canceled /\ call[c].at # "done"
    /\ call' = [call EXCEPT ![c].canceled = TRUE]
    /\ UNCHANGED <<sessionToken, liveToken, issuedTokens, flight>>

(* The session expires, or a sign-in outside TADX ends it.                    *)
SessionEnds ==
    /\ liveToken # 0
    /\ liveToken' = 0
    /\ UNCHANGED <<sessionToken, issuedTokens, flight, call>>

CallStep(c) == Send(c) \/ Answer(c) \/ RenewCanceled(c) \/ EnterFlight(c) \/ LeaveFlight(c)

FlightStep == RenewUnneeded \/ RenewNeeded \/ SignInAgain \/ ReplaceToken \/ RenewFails

RenewalNext ==
    \/ \E c \in Calls : CallStep(c) \/ CancelCall(c)
    \/ FlightStep
    \/ SessionEnds

RenewalSpec == RenewalInit /\ [][RenewalNext]_renewalVars

(* Goroutines run on; Tableau answers or the stall watchdog ends the request. *)
RenewalFairness ==
    /\ \A c \in Calls : WF_renewalVars(CallStep(c))
    /\ WF_renewalVars(FlightStep)

-----------------------------------------------------------------------------
(* Tableau carries a request out at most once however often it is sent, a     *)
(* request reported as done was carried out, and one reported as rejected or  *)
(* not renewed was not: the resend of Transport.Do is safe for mutations.     *)
(* Renew returns nil only when the session has replaced the rejected token,   *)
(* whichever request's attempt replaced it, and concurrent rejections cause   *)
(* one sign-in: renewing never signs in while the session's own token is      *)
(* good, which would end the session of the requests under way.               *)
CarriedOutOnce ==
    \A c \in Calls :
        /\ call[c].effects <= 1
        /\ call[c].answer = "ok" => call[c].effects = 1
        /\ call[c].at = "done" /\ call[c].answer \in {"rejected", "renewFailed", "canceled"}
            => call[c].effects = 0
        /\ call[c].at = "resend" => sessionToken # call[c].token

RenewalSparesLiveSession ==
    [][issuedTokens' # issuedTokens => sessionToken # liveToken]_renewalVars

ResendIsSafe == [](RenewalTypeOK /\ CarriedOutOnce) /\ RenewalSparesLiveSession

(* Every request ends: waiters of an attempt are always woken.                *)
EveryCallEnds == \A c \in Calls : <>(call[c].at = "done")
=============================================================================
