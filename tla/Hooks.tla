-------------------------------- MODULE Hooks --------------------------------
(***************************************************************************)
(* fusion_code_modelization/core/hooks.py: what a chain of handlers        *)
(* decides about a payload.  The module has no state: AgentLoop,           *)
(* CodeCommand and PullRequest run chains at their emit points.            *)
(*                                                                         *)
(* Abstractions: a text is the set of things in it that a handler looks    *)
(* for; a path is plain, in a system directory (what path_guard matches)   *)
(* or outside the project; the verdict of the guard service is a           *)
(* parameter, chosen by the step that emits.                               *)
(***************************************************************************)
EXTENDS Integers, Sequences, SequencesExt

\* What the regular expressions and the guard service look for in a text.
Marks == {"secret", "flagged", "destructive"}
Texts == SUBSET Marks

PathKinds == {"none", "plain", "system", "outside"}

Payload == [text : Texts, path : PathKinds]

\* A registered handler: a built-in one, or one that the caller registered.
Handlers == {"path_guard", "dangerous_cmd_guard", "secret_scrub", "audit_log",
             "guard_evaluate", "custom"}

Events == {"pre_write", "post_llm", "pre_exec", "post_exec"}

\* HookDecision; text is the content that goes on, modified or not.
Decision == [action : {"allow", "deny", "modify"}, text : Texts]

Allow(text)  == [action |-> "allow", text |-> text]
Deny(text)   == [action |-> "deny", text |-> text]
Modify(text) == [action |-> "modify", text |-> text]

\* What comes back from the guard service, or of the attempt to reach it.
Verdicts == {"allow", "redact", "block", "redact_without_content", "unknown_action",
             "error", "unreachable", "unavailable"}

\* GuardBridge.evaluate: open when there is no service, closed on all else.
Evaluate(text, verdict) ==
    CASE verdict \in {"allow", "unreachable", "unavailable"} -> Allow(text)
      [] verdict = "redact" -> Modify(text \ {"flagged"})
      [] OTHER -> Deny(text)

\* One handler.  A caller's handler allows, redacts, denies or raises, as a
\* verdict says: an exception counts as a denial wherever handlers are run.
Decide(handler, payload, verdict) ==
    CASE handler = "path_guard" /\ payload.path = "system" -> Deny(payload.text)
      [] handler = "dangerous_cmd_guard" /\ "destructive" \in payload.text ->
             Deny(payload.text)
      [] handler = "secret_scrub" /\ "secret" \in payload.text ->
             Modify(payload.text \ {"secret"})
      [] handler \in {"guard_evaluate", "custom"} -> Evaluate(payload.text, verdict)
      [] OTHER -> Allow(payload.text)

\* A denial is final, and a handler that allows changes nothing.
Follow(decision, next) ==
    IF decision.action = "deny" \/ next.action = "allow" THEN decision ELSE next

\* Mutant: every handler sees the text as it was at first.
EmitUnchained(handlers, payload, verdict) ==
    LET after[n \in 0 .. Len(handlers)] ==
            IF n = 0 THEN Allow(payload.text)
            ELSE Follow(after[n - 1], Decide(handlers[n], payload, verdict))
    IN  after[Len(handlers)]

\* HookRegistry.emit and SafeWriter._emit: the first denial wins, and each
\* handler sees the text as the ones before it left it.
Emit(handlers, payload, verdict) ==
    LET after[n \in 0 .. Len(handlers)] ==
            IF n = 0 THEN Allow(payload.text)
            ELSE LET seen == [payload EXCEPT !.text = after[n - 1].text]
                 IN  Follow(after[n - 1], Decide(handlers[n], seen, verdict))
    IN  after[Len(handlers)]

\* The handlers that are coroutines.
Async == {"guard_evaluate"}

\* PipelineIntegrator._check_exec: coroutines are skipped, and each handler
\* sees the command as it is.
CheckExec(handlers, payload, verdict) ==
    \A n \in DOMAIN handlers :
        handlers[n] \notin Async => Decide(handlers[n], payload, verdict).action # "deny"

\* default_registry, and a registry that is None or disabled.
DefaultRegistry ==
    [pre_write |-> <<"path_guard", "secret_scrub", "guard_evaluate">>,
     post_llm  |-> <<"secret_scrub", "guard_evaluate">>,
     pre_exec  |-> <<"dangerous_cmd_guard">>,
     post_exec |-> <<"audit_log">>]

NoRegistry == [event \in Events |-> <<>>]

\* HookRegistry.register.
Register(registry, event, handler) == [registry EXCEPT ![event] = Append(@, handler)]

Registered(registry, event) == {registry[event][k] : k \in DOMAIN registry[event]}
=============================================================================
