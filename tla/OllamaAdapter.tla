--------------------------- MODULE OllamaAdapter ---------------------------
(***************************************************************************)
(* OllamaModelAdapter.invoke (ollama.py) and the contract every adapter's  *)
(* result is held to, validate_model_result (adapters.py).  One call is    *)
(* one request: no retry, no state.  What the transport does is a reply    *)
(*   [outcome, status, bytes, size, output, input_tokens, output_tokens]   *)
(* with outcome "replied" or the kind of exception it raised; bytes says   *)
(* that the body is a bytes object; output is the JSON object found in     *)
(* message.content, None when there is none; a count that is no count is   *)
(* None too.                                                               *)
(***************************************************************************)
EXTENDS Integers, FiniteSets

CONSTANTS
    None,
    Digest(_),
    Unusable,            \* JSON objects json.loads takes and snapshot_json refuses
    MaxResponseBytes,    \* OLLAMA_MAX_RESPONSE_BYTES
    MaxUsage             \* greatest token count of at most 4096 bits

DataClassifications == {"public", "internal", "confidential", "restricted", "unknown"}

Raised == [status |-> "RAISED"]

\* ModelResult.returned copies the output and digests the copy; an output that
\* is no JSON value makes it raise.
Returned(identity, output, input, produced, call) ==
    IF output \in Unusable THEN Raised
    ELSE [status |-> "RETURNED", output |-> output, output_digest |-> Digest(output),
          provider |-> identity.provider, model |-> identity.model,
          input_tokens |-> input, output_tokens |-> produced, cost_microunits |-> 0,
          contains_secret |-> call.contains_secret,
          data_classification |-> call.data_classification, error_code |-> None]

Terminal(identity, call, code) ==
    [status |-> "ERROR", output |-> None, output_digest |-> None,
     provider |-> identity.provider, model |-> identity.model,
     input_tokens |-> 0, output_tokens |-> 0, cost_microunits |-> 0,
     contains_secret |-> call.contains_secret,
     data_classification |-> call.data_classification, error_code |-> code]

ReplyUsable(reply) ==
    /\ reply.output # None
    /\ \A count \in {reply.input_tokens, reply.output_tokens} : count # None /\ count >= 0

\* The error an answer stands for, None when it can be returned.
ErrorOf(reply) ==
    CASE reply.outcome = "http_error" \/ (reply.outcome = "replied" /\ reply.status # 200) ->
             IF reply.status = 404 THEN "OLLAMA_MODEL_NOT_FOUND" ELSE "OLLAMA_HTTP_ERROR"
      [] reply.outcome = "timeout" -> "OLLAMA_TIMEOUT"
      [] reply.outcome = "os_error" -> "OLLAMA_UNAVAILABLE"
      [] reply.outcome = "exception" -> "OLLAMA_TRANSPORT_ERROR"
      [] OTHER ->
             IF ~reply.bytes THEN "OLLAMA_RESPONSE_INVALID"
             ELSE IF reply.size > MaxResponseBytes THEN "OLLAMA_RESPONSE_TOO_LARGE"
             ELSE IF ~ReplyUsable(reply) THEN "OLLAMA_RESPONSE_INVALID"
             ELSE None

\* Mutant: an answer that cannot be used is returned without its output.
InvokeReturnsAnyAnswer(identity, call, remaining, reply) ==
    IF remaining <= 0 THEN Terminal(identity, call, "OLLAMA_DEADLINE_EXCEEDED")
    ELSE IF ErrorOf(reply) \in {None, "OLLAMA_RESPONSE_INVALID"}
    THEN Returned(identity, reply.output, 0, 0, call)
    ELSE Terminal(identity, call, ErrorOf(reply))

\* remaining is the time left before the call's deadline.
InvokeOllama(identity, call, remaining, reply) ==
    IF remaining <= 0 THEN Terminal(identity, call, "OLLAMA_DEADLINE_EXCEEDED")
    ELSE IF ErrorOf(reply) # None THEN Terminal(identity, call, ErrorOf(reply))
    ELSE Returned(identity, reply.output, reply.input_tokens, reply.output_tokens, call)

-----------------------------------------------------------------------------
(* What the runner makes of a result that was not raised.                  *)

UsageValid(result) ==
    \A count \in {result.input_tokens, result.output_tokens, result.cost_microunits} :
        count \in 0..MaxUsage

ModelResultReasons(result, identity, call) ==
    {r \in {"MODEL_RESULT_INVALID", "ADAPTER_IDENTITY_MISMATCH", "MODEL_USAGE_INVALID",
            "MODEL_OUTPUT_BUDGET_EXCEEDED", "MODEL_OUTPUT_INVALID", "MODEL_OUTPUT_DIGEST_MISMATCH"} :
        \/ r = "MODEL_RESULT_INVALID"
              /\ \/ result.data_classification \notin DataClassifications
                 \/ result.status = "RETURNED"
                       /\ (result.output_digest = None \/ result.error_code # None)
                 \/ result.status # "RETURNED"
                       /\ (result.output # None \/ result.output_digest # None
                           \/ result.error_code = None)
        \/ r = "ADAPTER_IDENTITY_MISMATCH"
              /\ <<result.provider, result.model>> # <<identity.provider, identity.model>>
        \/ r = "MODEL_USAGE_INVALID" /\ ~UsageValid(result)
        \/ r = "MODEL_OUTPUT_BUDGET_EXCEEDED" /\ UsageValid(result)
              /\ result.output_tokens > call.max_output_tokens
        \/ r = "MODEL_OUTPUT_INVALID" /\ result.status = "RETURNED" /\ result.output = None
        \/ r = "MODEL_OUTPUT_DIGEST_MISMATCH" /\ result.status = "RETURNED"
              /\ result.output # None /\ result.output_digest # Digest(result.output)}

=============================================================================
