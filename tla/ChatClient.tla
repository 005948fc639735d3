------------------------------- MODULE ChatClient ------------------------------
(***************************************************************************)
(* One call of _call_chat_api_messages (policy/llm_search.py): the models  *)
(* are tried in order, a 404 advances to the next one, and each of them is *)
(* asked again after a 429, 502, 503 or a network error, max_retries times *)
(* at most.  The sleeps between two requests are left out.                 *)
(***************************************************************************)
EXTENDS Naturals

CONSTANTS Models,        \* how many model names llm_model gives
          MaxRetries

ASSUME ChatAssumption == Models \in Nat \ {0} /\ MaxRetries \in Nat

VARIABLES model, attempt,
          answer         \* "none", "pending", "text" or "error"

chatVars == <<model, attempt, answer>>

ChatInit == model = 1 /\ attempt = 0 /\ answer = "none"

StartCall == model' = 1 /\ attempt' = 0 /\ answer' = "pending"

EndCall == answer' = "none" /\ UNCHANGED <<model, attempt>>

Answered == answer' = "text" /\ UNCHANGED <<model, attempt>>

(* Mutant of Unavailable: the attempts start anew. *)
UnavailableForEver ==
    attempt' = (IF attempt < MaxRetries THEN attempt + 1 ELSE 0) /\ UNCHANGED <<model, answer>>

(* 429, 502, 503, or no connection. *)
Unavailable ==
    IF attempt < MaxRetries
    THEN attempt' = attempt + 1 /\ UNCHANGED <<model, answer>>
    ELSE answer' = "error" /\ UNCHANGED <<model, attempt>>

(* 404: a new model name starts with all its retries. *)
UnknownModel ==
    IF model < Models
    THEN model' = model + 1 /\ attempt' = 0 /\ UNCHANGED answer
    ELSE answer' = "error" /\ UNCHANGED <<model, attempt>>

(* Another status, or a body that is not a completion. *)
Refused == answer' = "error" /\ UNCHANGED <<model, attempt>>

Respond == answer = "pending" /\ (Answered \/ Unavailable \/ UnknownModel \/ Refused)

ChatTypeOK ==
    /\ model \in 1..Models /\ attempt \in 0..MaxRetries
    /\ answer \in {"none", "pending", "text", "error"}

=============================================================================
