----------------------------- MODULE HTTPSender -----------------------------
(***************************************************************************)
(* The deliveries of one task by HTTPSender.Send: secrets, name resolution *)
(* and its check, redirects, the result with its diagnostic text, and the  *)
(* UPDATE that stores both. The resolver may answer differently each time  *)
(* it is asked, and every answer of the supplier may be a redirect. A      *)
(* request uses a connection that is still open, or dials again. The URL   *)
(* itself was validated at start: https, with a host that is no disallowed *)
(* address. No process crashes and no call of the database fails here but  *)
(* for what is stored.                                                     *)
(***************************************************************************)
EXTENDS RetryPolicy, Diagnostics

CONSTANTS
    Host,           \* names a Location header may hold
    Registered,     \* host of the destination's URL
    Public,         \* addresses outside the disallowed networks
    Disallowed,     \* loopback, private, link-local, multicast, unspecified
    StatusCodes,    \* answers that are not followed
    MaxAttempts     \* max_attempts of the task

ASSUME RegisteredAssumption == Registered \in Host
ASSUME MaxAttemptsAssumption == MaxAttempts \in Nat \ {0}

VARIABLES
    stage,       \* where the worker is
    target,      \* scheme and host of the request to be sent
    via,         \* requests of this call so far
    connected,   \* is a connection to the target open
    contacted,   \* history: <<host, address>> dialled
    sendResult,  \* outcome, error code and message of this call
    status,      \* of the row
    attempts,    \* attempt_count of the row
    message,     \* last_error_message of the row
    accepted     \* history: a supplier has answered 2xx

callVars == <<target, via, connected, contacted>>
rowVars == <<status, attempts, message>>
senderVars == <<stage, callVars, sendResult, rowVars, accepted>>

Configured == [scheme |-> "https", host |-> Registered]

Result(outcome, code, text) == [outcome |-> outcome, code |-> code, message |-> text]
NoResult == Result("none", "none", <<>>)

SenderInit ==
    /\ stage = "idle"
    /\ target = Configured
    /\ via = 0
    /\ connected = FALSE
    /\ contacted = {}
    /\ sendResult = NoResult
    /\ status = "pending"
    /\ attempts = 0
    /\ message = <<>>
    /\ accepted = FALSE

(* ClaimDelivery; a connection of an earlier call may still be open, or of *)
(* another task of this destination.                                       *)
Claim ==
    /\ stage = "idle"
    /\ status = "pending"
    /\ status' = "delivering"
    /\ attempts' = attempts + 1
    /\ stage' = "prepare"
    /\ target' = Configured
    /\ via' = 0
    /\ connected' \in BOOLEAN
    /\ UNCHANGED <<contacted, sendResult, message, accepted>>

Finish(outcome, code, text) ==
    /\ stage' = "apply"
    /\ sendResult' = Result(outcome, code, text)

(* Secret headers are looked up in the worker's environment, which need    *)
(* not be the one the task was accepted with.                              *)
Prepare ==
    /\ stage = "prepare"
    /\ \/ stage' = "connect" /\ UNCHANGED sendResult
       \/ Finish("permanent", "missing_secret", <<>>)
    /\ UNCHANGED <<callVars, rowVars, accepted>>

ValidateResolvedIPs(addresses) ==
    addresses # <<>> /\ \A i \in DOMAIN addresses : addresses[i] \notin Disallowed

Resolved == {<<>>} \cup [1 .. 1 -> Public \cup Disallowed] \cup [1 .. 2 -> Public \cup Disallowed]

(* DialContext resolves, validates all and dials the first of what it has  *)
(* validated, anew for every connection.                                   *)
Dial ==
    /\ stage = "connect"
    /\ ~connected
    /\ \E addresses \in Resolved :
          IF ValidateResolvedIPs(addresses)
          THEN /\ contacted' = contacted \cup {<<target.host, addresses[1]>>}
               /\ connected' = TRUE
               /\ UNCHANGED <<stage, sendResult>>
          ELSE /\ Finish("permanent", "destination_not_allowed", <<>>)
               /\ UNCHANGED <<contacted, connected>>
    /\ UNCHANGED <<target, via, rowVars, accepted>>

SendRequest ==
    /\ stage = "connect"
    /\ connected
    /\ stage' = "sent"
    /\ via' = via + 1
    /\ UNCHANGED <<target, connected, contacted, sendResult, rowVars, accepted>>

(* Resolution, dialling or the exchange failed, or the timeout passed; the *)
(* text of the error is not cut and may quote what the supplier sent, a    *)
(* Location or a malformed answer.                                         *)
TransportError ==
    /\ stage \in {"connect", "sent"}
    /\ \E text \in Body : Finish("retryable", "transport_error", Sanitize(text))
    /\ UNCHANGED <<callVars, rowVars, accepted>>

ErrorCode(code) ==
    IF ClassifyResult(code) = "delivered" THEN "none"
    ELSE IF code >= 500 THEN "http_5xx" ELSE "http_4xx"

(* Whatever the outcome, the start of the body is the message. *)
Respond ==
    /\ stage = "sent"
    /\ \E code \in StatusCodes, body \in Body :
          /\ Finish(ClassifyResult(code), ErrorCode(code), Sanitize(Cut(body)))
          /\ accepted' = (accepted \/ ClassifyResult(code) = "delivered")
    /\ UNCHANGED <<callVars, rowVars>>

(* Mutant: the host of the redirect is not compared. *)
CheckRedirectScheme(scheme, host) == scheme = Configured.scheme /\ via < 3

CheckRedirect(scheme, host) ==
    scheme = Configured.scheme /\ host = Configured.host /\ via < 3

(* 301, 302, 303, 307 or 308 with a Location. *)
Redirect ==
    /\ stage = "sent"
    /\ \E scheme \in {"https", "http"}, host \in Host :
          IF CheckRedirect(scheme, host)
          THEN /\ stage' = "connect"
               /\ target' = [scheme |-> scheme, host |-> host]
               /\ connected' \in {FALSE, connected /\ host = target.host}
               /\ UNCHANGED sendResult
          ELSE /\ Finish("permanent", "redirect_not_allowed", <<>>)
               /\ UNCHANGED <<target, connected>>
    /\ UNCHANGED <<via, contacted, rowVars, accepted>>

(* NextAttempt grants no retry after the last attempt. *)
StatusAfter(outcome) ==
    CASE outcome = "delivered" -> "delivered"
      [] outcome = "retryable" /\ attempts < MaxAttempts -> "retry_wait"
      [] OTHER -> "dead"

(* Outcome and message are stored, or the whole UPDATE fails: Handle       *)
(* answers Requeue, and the redelivered message finds a row that is still  *)
(* delivering.                                                             *)
ApplyDeliveryResult ==
    /\ stage = "apply"
    /\ IF ValidUTF8(sendResult.message)
       THEN /\ status' = StatusAfter(sendResult.outcome)
            /\ message' = sendResult.message
       ELSE UNCHANGED <<status, message>>
    /\ stage' = "idle"
    /\ sendResult' = NoResult
    /\ UNCHANGED <<callVars, attempts, accepted>>

(* The retry falls due or the lease of the lost result expires. *)
ScheduleDue ==
    /\ stage = "idle"
    /\ status \in {"delivering", "retry_wait"}
    /\ status' = IF attempts >= MaxAttempts THEN "dead" ELSE "pending"
    /\ UNCHANGED <<stage, callVars, sendResult, attempts, message, accepted>>

SenderNext ==
    \/ Claim \/ Prepare \/ Dial \/ SendRequest \/ TransportError \/ Respond \/ Redirect
    \/ ApplyDeliveryResult \/ ScheduleDue

SenderSpec == SenderInit /\ [][SenderNext]_senderVars

-----------------------------------------------------------------------------
(* Properties. *)

(* Whatever the resolver answers from one request to the next and wherever *)
(* the supplier redirects, only the registered host is contacted, at an    *)
(* address that was validated together with all its siblings, and at most  *)
(* two redirects are followed.                                             *)
StaysWithDestination ==
    /\ \A c \in contacted : c[1] = Registered /\ c[2] \in Public
    /\ target = Configured
    /\ via <= 3

(* What a caller reads of a supplier's answer is bounded and holds no      *)
(* control characters, although replacing invalid bytes makes it longer;   *)
(* and whatever bytes a supplier sends, the database refuses a result only *)
(* for a text that fills the limit, which the cut may have spoilt.         *)
MessageIsClean ==
    /\ Len(message) <= Limit
    /\ \A i \in DOMAIN message : message[i] # "control"
    /\ stage = "apply" /\ Len(sendResult.message) < Limit => ValidUTF8(sendResult.message)

(* "HTTP 2xx is delivered": a task a supplier has answered 2xx does not    *)
(* end dead. Nothing crashes here, but a character cut in two at the limit *)
(* makes a message that cannot be stored, and the result is lost with it.  *)
AcceptedIsNotDead == ~(accepted /\ status = "dead")
=============================================================================
