---------------------------- MODULE LLMBackends ----------------------------
(***************************************************************************)
(* What a call of an LLM backend ends in (core/llm): which backend can be  *)
(* made from the deployment's configuration (factory.py, runtime.py), what *)
(* chat raises for each reply of the endpoint (the *_backend.py modules),  *)
(* and what a probe of the connection reports.  A configuration is the set *)
(* of the environment variables that are not empty.                        *)
(***************************************************************************)
EXTENDS Naturals, FiniteSets

CONSTANT MaxRetries    \* settings.llm_max_retries

ASSUME MaxRetriesAssumption == MaxRetries \in Nat

Backends == {"ollama", "kserve", "vllm", "maas", "trustyai", "mock"}

Variables ==
    {"OLLAMA_HOST", "KSERVE_ENDPOINT", "KSERVE_MODEL_NAME", "VLLM_ENDPOINT", "VLLM_MODEL_NAME",
     "LLM_MAAS_BASE_URL", "LLM_MAAS_MODEL", "LLM_MAAS_API_KEY",
     "LLM_TRUSTYAI_BASE_URL", "LLM_TRUSTYAI_MODEL"}

-----------------------------------------------------------------------------
(* Configuration *)

\* is_backend_configured.
Required(backend) ==
    CASE backend = "ollama"   -> {"OLLAMA_HOST"}
      [] backend = "kserve"   -> {"KSERVE_ENDPOINT", "KSERVE_MODEL_NAME"}
      [] backend = "vllm"     -> {"VLLM_ENDPOINT", "VLLM_MODEL_NAME"}
      [] backend = "maas"     -> {"LLM_MAAS_BASE_URL", "LLM_MAAS_MODEL", "LLM_MAAS_API_KEY"}
      [] backend = "trustyai" -> {"LLM_TRUSTYAI_BASE_URL", "LLM_TRUSTYAI_MODEL"}
      [] OTHER                -> {}

Configured(backend, cfg) == backend \in Backends /\ Required(backend) \subseteq cfg

MissingConfig(backend, cfg) == Required(backend) \ cfg

\* The constructors of kserve, maas and trustyai refuse an empty value.
Constructed(backend, cfg) ==
    backend \in {"kserve", "maas", "trustyai"} => Required(backend) \subseteq cfg

\* What a probe of the connection finds: the endpoint is asked for its models,
\* trustyai for its health; vllm is not implemented and mock always there.
Probes == {"ok", "refused", "error"}

\* Only these two tell a refused credential from an endpoint that is down.
ReportRefusal == {"maas", "trustyai"}

Health(backend, probe) ==
    CASE backend = "mock" -> [online |-> TRUE, auth_failed |-> FALSE]
      [] backend = "vllm" -> [online |-> FALSE, auth_failed |-> FALSE]
      [] OTHER -> [online |-> probe = "ok",
                   auth_failed |-> probe = "refused" /\ backend \in ReportRefusal]

\* test_connection.
TestConnection(backend, cfg, probe) ==
    LET health == Health(backend, probe)
        asked == Configured(backend, cfg) /\ Constructed(backend, cfg)
    IN  [reachable |-> asked /\ (health.online \/ health.auth_failed),
         authenticated |-> asked /\ health.online /\ ~health.auth_failed]

-----------------------------------------------------------------------------
(* One call of chat *)

Replies == {"content", "warnings", "empty", "no_choices", "not_json",
            "unauthorized", "forbidden", "rate_limited", "http_error",
            "timeout", "transport", "other"}

\* What chat returns or raises: an answer, one of the classes of base.py under
\* LLMBackendError, or NotImplementedError, which is none of them.
BackendErrors == {"auth", "timeout", "unreachable", "response", "guardrail", "backend"}
ChatOutcomes == BackendErrors \cup {"answer", "not_implemented"}

\* How an endpoint's reply is taken: the status of the response first, then
\* its JSON envelope, then the message.
Taken(reply) ==
    CASE reply \in {"unauthorized", "forbidden"} -> "auth"
      [] reply = "timeout"                        -> "timeout"
      [] reply = "transport"                      -> "unreachable"
      [] reply = "other"                          -> "backend"
      [] reply \in {"content", "warnings"}        -> "answer"
      [] OTHER                                    -> "response"

\* trustyai looks for a guardrail's warnings before it reads the message.
Guarded(reply) == IF reply = "warnings" THEN "guardrail" ELSE Taken(reply)

Attempts == [1 .. MaxRetries + 1 -> Replies]

\* Only ollama tries again, and only what failed below HTTP.
Transient == {"timeout", "transport"}

Deciding(attempts) ==
    CHOOSE n \in DOMAIN attempts :
        /\ \A k \in 1 .. n - 1 : attempts[k] \in Transient
        /\ attempts[n] \notin Transient \/ n = MaxRetries + 1

Chat(backend, attempts) ==
    CASE backend = "mock"     -> "answer"
      [] backend = "vllm"     -> "not_implemented"
      [] backend = "ollama"   -> Taken(attempts[Deciding(attempts)])
      [] backend = "trustyai" -> Guarded(attempts[1])
      [] OTHER                -> Taken(attempts[1])
=============================================================================
