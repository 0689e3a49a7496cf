----------------------------- MODULE ModelCalls -----------------------------
(***************************************************************************)
(* A call of the language model with its retries and its fallback model    *)
(* (deepseek/client.py), and the classification of the error it may raise  *)
(* (reliability/failures.py).                                              *)
(***************************************************************************)
EXTENDS Integers, Sequences

CONSTANTS Attempts,  \* attempts per model
          Models     \* 1 without a fallback model, 2 with one

ASSUME ModelAssumption == {Attempts, Models} \subseteq Nat \ {0}

VARIABLES
    chat,         \* the call of request_json: [at, model, attempt, errors, raised]
    sent,         \* requests it made
    callLedger    \* its usage callbacks: [ok, failed]

modelVars == <<chat, sent, callLedger>>

\* What can come of a request.  A code is the status the error's text shows: that of the
\* answer or, where JSON was invalid, a line or column that reads like one.
Outcomes ==
    {[kind |-> "ok", code |-> 0], [kind |-> "http", code |-> 429], [kind |-> "http", code |-> 503],
     [kind |-> "http", code |-> 401], [kind |-> "timeout", code |-> 0], [kind |-> "refused", code |-> 0],
     [kind |-> "truncated", code |-> 0], [kind |-> "bad_json", code |-> 0],
     [kind |-> "bad_json", code |-> 401], [kind |-> "bad_json", code |-> 503],
     [kind |-> "not_json", code |-> 0]}

ModelTypeOK ==
    /\ chat.at \in {"idle", "request", "answered", "failed"}
    /\ chat.model \in 1..Models /\ chat.attempt \in 1..Attempts
    /\ Len(chat.errors) <= Models
    /\ sent \in Nat /\ callLedger \in [ok : 0..sent, failed : 0..sent]

ModelInit ==
    /\ chat = [at |-> "idle", model |-> 1, attempt |-> 1, errors |-> <<>>, raised |-> "none"]
    /\ sent = 0
    /\ callLedger = [ok |-> 0, failed |-> 0]

BeginCall ==
    /\ chat.at = "idle"
    /\ chat' = [chat EXCEPT !.at = "request"]
    /\ UNCHANGED <<sent, callLedger>>

\* A status after which another attempt may help.
Passing(code) == code \in {408, 429} \cup 500..599

\* The errors whose text shows a status, and whether one is a timeout.
Shown(errors) == {i \in DOMAIN errors : errors[i].code # 0}

TimedOut(errors) == \E i \in DOMAIN errors : errors[i].kind = "timeout"

Disposition_LastStatus(errors) ==
    LET last == CHOOSE i \in Shown(errors) : \A j \in Shown(errors) : i >= j
        retry == IF Shown(errors) # {} THEN Passing(errors[last].code) ELSE TimedOut(errors)
    IN  IF retry THEN "retry" ELSE "terminal"

\* classify_failure of the error request_json raises, which has neither an answer nor a cause:
\* the first number in its text that is a status of interest, else the words of the text.
Disposition(errors) ==
    LET first == CHOOSE i \in Shown(errors) : \A j \in Shown(errors) : i <= j
        retry == IF Shown(errors) # {} THEN Passing(errors[first].code) ELSE TimedOut(errors)
    IN  IF retry THEN "retry" ELSE "terminal"

\* on_usage is called for the request: always, but for a body that is no JSON, whose exception
\* is none of those that are caught.
Reported(o) == o.kind # "not_json"

\* The loop over the attempts ends; every error is tried again, also one that will not pass.
LastAttempt(o) == chat.attempt = Attempts

\* One request of _request_model_json, and what request_json makes of its end.
RequestModel(o) ==
    /\ chat.at = "request"
    /\ sent' = sent + 1
    /\ callLedger' = CASE ~ Reported(o) -> callLedger
                       [] o.kind = "ok" -> [callLedger EXCEPT !.ok = @ + 1]
                       [] OTHER -> [callLedger EXCEPT !.failed = @ + 1]
    /\ LET errors == Append(chat.errors, o)
       IN  chat' = CASE o.kind = "ok" -> [chat EXCEPT !.at = "answered"]
                     [] o.kind = "not_json" -> [chat EXCEPT !.at = "failed", !.raised = "terminal"]
                     [] o.kind \notin {"ok", "not_json"} /\ ~ LastAttempt(o) ->
                           [chat EXCEPT !.attempt = @ + 1]
                     [] OTHER ->
                           IF chat.model < Models
                           THEN [chat EXCEPT !.model = @ + 1, !.attempt = 1, !.errors = errors]
                           ELSE [chat EXCEPT !.at = "failed", !.errors = errors,
                                             !.raised = Disposition(errors)]

ModelNext ==
    \/ BeginCall
    \/ \E o \in Outcomes : RequestModel(o)

-----------------------------------------------------------------------------
(* Properties.                                                             *)

\* Every request to the model is in the usage ledger once, whichever of the retries and models
\* it belongs to, except one whose body was no JSON; an answer is the only success
\* (_request_model_json).
UsageOfEveryRequest ==
    /\ callLedger.ok + callLedger.failed
          = IF chat.at = "failed" /\ Len(chat.errors) < Models THEN sent - 1 ELSE sent
    /\ callLedger.ok = IF chat.at = "answered" THEN 1 ELSE 0

\* A call fails only when every model has failed as often as it may be asked, or with a body
\* that was no JSON, and asks no more often than that (request_json).
FailsWhenSpent ==
    /\ sent <= Models * Attempts
    /\ chat.at = "failed" /\ Len(chat.errors) = Models => sent = Models * Attempts

\* The failure of a call whose models all failed for reasons that pass (429, a server error) is
\* retried; one that the primary model refused for good is not, whatever the fallback model
\* said (classify_failure).
PrimaryDecides ==
    chat.at = "failed" /\ Len(chat.errors) = Models =>
       /\ (\A i \in 1..Models : chat.errors[i].code \in {429, 503}) => chat.raised = "retry"
       /\ chat.errors[1].code = 401 => chat.raised = "terminal"

\* A call of the language model: every request is in the usage ledger, a call fails only when
\* its attempts are spent or cannot help, and the failure is classified by the primary model's
\* answer (request_json, classify_failure).
ModelInv == ModelTypeOK /\ UsageOfEveryRequest /\ FailsWhenSpent /\ PrimaryDecides

=============================================================================
