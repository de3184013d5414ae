------------------------------ MODULE AgentLoop ------------------------------
(***************************************************************************)
(* fusion_code_modelization/core/agent_loop.py: one AgentLoop.run, which   *)
(* asks the model for code, has a tool verify it, and retries with the     *)
(* error of the last attempt, max_iter times at most.  A step is what      *)
(* happens between two awaits of the model client or the tool.             *)
(*                                                                         *)
(* Abstractions: code is its text and the attempt that produced it; an     *)
(* error is its kind and the attempt that made it; extraction may lose     *)
(* parts of a text; a trace is an attempt and its decision.                *)
(***************************************************************************)
EXTENDS Integers, Hooks

CONSTANTS Registries,   \* what a loop may be given as its hooks
          MaxIterations \* bound on the max_iter of a run (the code has none)

ASSUME RegistriesAssumption == Registries \subseteq [Events -> Seq(Handlers)]
ASSUME IterationsAssumption == MaxIterations \in Nat

VARIABLES hooks,       \* the registry of this run
          verify_tool, \* "none", a tool that is registered, or one that is not
          max_iter,
          pc,          \* idle, asking the model, executing the tool, done
          i,           \* the attempt
          prompt,      \* the error that the prompt of this attempt carries
          last_output, \* the newest code
          last_error,
          traces,      \* what the answer carries
          file,        \* what is in the trace file
          ran,         \* what the tool was last run on, and what it said
          answer       \* what run has returned

loopVars == <<hooks, verify_tool, max_iter, pc, i, prompt, last_output, last_error,
              traces, file, ran, answer>>

NoCode == [attempt |-> 0, text |-> {}]
NotRun == [code |-> NoCode, said |-> "nothing"]
NoError == [attempt |-> 0, kind |-> "none"]
NoAnswer == [status |-> "none", result |-> NoCode, verified |-> FALSE,
             iterations |-> 0, last_error |-> NoError]

Code == [attempt : 0 .. MaxIterations, text : Texts]
Error == [attempt : 0 .. MaxIterations, kind : {"none", "llm_failed", "denied", "tool"}]
LoopDecision == {"llm_failed_retry", "hook_denied", "unknown_tool_fail_fast",
                 "retry_with_feedback", "pass"}
LoopTrace == [iteration : 1 .. MaxIterations, decision : LoopDecision]
LoopStatus == {"completed", "failed", "max_iter_reached"}
LoopAnswer == [status : LoopStatus \cup {"none"}, result : Code, verified : BOOLEAN,
               iterations : 0 .. MaxIterations, last_error : Error]

LoopInit ==
    /\ hooks \in Registries
    /\ verify_tool \in {"none", "known", "unknown"}
    /\ max_iter \in 0 .. MaxIterations
    /\ pc = "idle"
    /\ i = 0
    /\ prompt = NoError
    /\ last_output = NoCode
    /\ last_error = NoError
    /\ traces = <<>>
    /\ file = <<>>
    /\ ran = NotRun
    /\ answer = NoAnswer

-----------------------------------------------------------------------------
Settings == <<hooks, verify_tool, max_iter>>

\* _append_trace: a line in the file, unless writing it fails.
Written(trace) == file' \in {file, Append(file, trace)}

Traced(decision) ==
    LET trace == [iteration |-> i, decision |-> decision] IN
    /\ traces' = Append(traces, trace)
    /\ Written(trace)

\* return
Return(status, result, verified, error) ==
    /\ pc' = "done"
    /\ answer' = [status |-> status, result |-> result, verified |-> verified,
                  iterations |-> i, last_error |-> error]
    /\ UNCHANGED <<i, prompt>>

\* The head of the for loop: the next attempt's prompt, or the end.
NextAttempt(n, output, error) ==
    IF n < max_iter
    THEN /\ pc' = "asking"
         /\ i' = n + 1
         /\ prompt' = IF i' > 1 THEN error ELSE NoError
         /\ UNCHANGED answer
    ELSE /\ pc' = "done"
         /\ answer' = [status |-> "max_iter_reached", result |-> output,
                       verified |-> FALSE, iterations |-> max_iter, last_error |-> error]
         /\ UNCHANGED <<i, prompt>>

\* Mutant: a retry that does not note its error.
RetryOldError(output, kind, decision) ==
    /\ Traced(decision)
    /\ last_output' = output
    /\ UNCHANGED last_error
    /\ NextAttempt(i, output, last_error)

\* continue: the attempt is traced and the next one gets its error.
Retry(output, kind, decision) ==
    LET error == [attempt |-> i, kind |-> kind] IN
    /\ Traced(decision)
    /\ last_output' = output
    /\ last_error' = error
    /\ NextAttempt(i, output, error)

-----------------------------------------------------------------------------
(* Actions *)

Run == /\ pc = "idle"
       /\ NextAttempt(0, NoCode, NoError)
       /\ UNCHANGED <<Settings, last_output, last_error, traces, file, ran>>

\* Mutant: a question that failed is not traced.
ChatFailedUntraced ==
    /\ pc = "asking"
    /\ last_error' = [attempt |-> i, kind |-> "llm_failed"]
    /\ NextAttempt(i, last_output, last_error')
    /\ UNCHANGED <<Settings, last_output, traces, file, ran>>

ChatFailed ==
    /\ pc = "asking"
    /\ Retry(last_output, "llm_failed", "llm_failed_retry")
    /\ UNCHANGED <<Settings, ran>>

\* The content of the answer, as the POST_LLM handlers leave it.
Scrubbed(raw, verdict) == Emit(hooks.post_llm, [text |-> raw, path |-> "none"], verdict)

PostLLMDenied(raw, verdict) ==
    /\ pc = "asking"
    /\ Scrubbed(raw, verdict).action = "deny"
    /\ Retry(last_output, "denied", "hook_denied")
    /\ UNCHANGED <<Settings, ran>>

\* extract: part of what the handlers let through.
Produced(raw, verdict) ==
    [attempt : {i}, text : SUBSET Scrubbed(raw, verdict).text]

\* What the PRE_EXEC handlers may say of it.
PreExec(code) ==
    {Emit(hooks.pre_exec, [text |-> code.text, path |-> "none"], verdict).action :
        verdict \in Verdicts}

Admitted(code) == PreExec(code) \cap {"allow", "modify"} # {}

PreExecDenied(raw, verdict) ==
    /\ pc = "asking"
    /\ verify_tool # "none"
    /\ Scrubbed(raw, verdict).action # "deny"
    /\ \E code \in Produced(raw, verdict) :
         /\ "deny" \in PreExec(code)
         /\ Retry(code, "denied", "hook_denied")
    /\ UNCHANGED <<Settings, ran>>

\* The tool is called with what was extracted: PRE_EXEC cannot modify it.
Execute(raw, verdict) ==
    /\ pc = "asking"
    /\ verify_tool = "known"
    /\ Scrubbed(raw, verdict).action # "deny"
    /\ \E code \in Produced(raw, verdict) :
         /\ Admitted(code)
         /\ last_output' = code
    /\ pc' = "executing"
    /\ UNCHANGED <<Settings, i, prompt, last_error, traces, file, ran, answer>>

\* _tool raises KeyError: the loop stops at once, with no result.
UnknownTool(raw, verdict) ==
    /\ pc = "asking"
    /\ verify_tool = "unknown"
    /\ Scrubbed(raw, verdict).action # "deny"
    /\ \E code \in Produced(raw, verdict) :
         /\ Admitted(code)
         /\ last_output' = code
    /\ Written([iteration |-> i, decision |-> "unknown_tool_fail_fast"])
    /\ Return("failed", NoCode, FALSE, [attempt |-> i, kind |-> "tool"])
    /\ UNCHANGED <<Settings, last_error, traces, ran>>

\* No tool at all: what was extracted passes.
Unverified(raw, verdict) ==
    /\ pc = "asking"
    /\ verify_tool = "none"
    /\ Scrubbed(raw, verdict).action # "deny"
    /\ \E code \in Produced(raw, verdict) :
         /\ last_output' = code
         /\ Return("completed", code, TRUE, NoError)
    /\ Traced("pass")
    /\ UNCHANGED <<Settings, last_error, ran>>

ToolPassed ==
    /\ pc = "executing"
    /\ ran' = [code |-> last_output, said |-> "passed"]
    /\ Traced("pass")
    /\ Return("completed", last_output, TRUE, NoError)
    /\ UNCHANGED <<Settings, last_output, last_error>>

\* Mutant: tool_passed keeps its initial value when the tool raises.
ToolFailedOpen(said) ==
    /\ pc = "executing"
    /\ ran' = [code |-> last_output, said |-> said]
    /\ IF said = "raised"
       THEN /\ Traced("pass")
            /\ Return("completed", last_output, TRUE, NoError)
            /\ UNCHANGED <<last_output, last_error>>
       ELSE Retry(last_output, "tool", "retry_with_feedback")
    /\ UNCHANGED Settings

\* The tool finds a fault, or raises.
ToolFailed(said) ==
    /\ pc = "executing"
    /\ ran' = [code |-> last_output, said |-> said]
    /\ Retry(last_output, "tool", "retry_with_feedback")
    /\ UNCHANGED Settings

\* A KeyError of the tool itself is taken for that of _tool.
ToolRaisedKeyError ==
    /\ pc = "executing"
    /\ ran' = [code |-> last_output, said |-> "raised"]
    /\ Written([iteration |-> i, decision |-> "unknown_tool_fail_fast"])
    /\ Return("failed", NoCode, FALSE, [attempt |-> i, kind |-> "tool"])
    /\ UNCHANGED <<Settings, last_output, last_error, traces>>

ModelAnswered ==
    \E raw \in Texts, verdict \in Verdicts :
        \/ PostLLMDenied(raw, verdict)
        \/ PreExecDenied(raw, verdict)
        \/ Execute(raw, verdict)
        \/ UnknownTool(raw, verdict)
        \/ Unverified(raw, verdict)

LoopNext == \/ Run
            \/ ChatFailed
            \/ ModelAnswered
            \/ ToolPassed
            \/ ToolRaisedKeyError
            \/ \E said \in {"failed", "raised"} : ToolFailed(said)
=============================================================================
