----------------------------- MODULE CodeCommand -----------------------------
(***************************************************************************)
(* The commands transpile, refactor and test-gen of cli/__init__.py, with  *)
(* the methods of CodeTranspiler, IncrementalRefactorer and                *)
(* UnitTestGenerator behind them: the model's code is obtained by one      *)
(* question or, with --loop, by an AgentLoop, and goes to the output file  *)
(* through SafeWriter, or to the terminal.  In mode "library" there is no  *)
(* command, only an AgentLoop that some program uses.                      *)
(*                                                                         *)
(* Left out: the streaming variants, and the texts that are printed.       *)
(***************************************************************************)
EXTENDS AgentLoop

VARIABLES mode,    \* plain, loop, library
          target,  \* the kind of path given with --output, or none
          output,  \* what is in the output file
          outcome  \* how the command has ended

vars == <<loopVars, mode, target, output, outcome>>

Absent == [attempt |-> 0, text |-> {}, whole |-> TRUE]  \* what was there before
Torn == [attempt |-> 0, text |-> {}, whole |-> FALSE]   \* a write that failed

Outcomes == {"running", "error", "blocked", "raised", "saved", "printed"}

\* A plain command makes one attempt.
Output == [attempt : {1} \cup 0 .. MaxIterations, text : Texts, whole : BOOLEAN]

\* --no-hooks gives the loop no registry; the command line has no other.
Init == /\ LoopInit
        /\ mode \in {"plain", "loop", "library"}
        /\ target \in PathKinds
        /\ output = Absent
        /\ outcome = "running"
        /\ mode # "library" => /\ hooks \in {NoRegistry, DefaultRegistry}
                               /\ verify_tool = "known"
        /\ mode = "library" => target = "none"
        /\ mode = "plain" => max_iter = 0

-----------------------------------------------------------------------------
\* SafeWriter.write_text under _write_output, whose registry is the default
\* one whatever --no-hooks says: the path first, then the handlers.  Some of
\* the commands print what may not be written.
WriteOutput(code, verdict) ==
    LET decision == Emit(DefaultRegistry.pre_write,
                         [text |-> code.text, path |-> target], verdict)
    IN  IF target = "outside" \/ decision.action = "deny"
        THEN outcome' \in {"blocked", "printed"} /\ UNCHANGED output
        ELSE \/ /\ outcome' = "saved"
                /\ output' = [attempt |-> code.attempt, text |-> decision.text, whole |-> TRUE]
             \/ outcome' = "raised" /\ output' \in {output, Torn}

\* if args.output
Deliver(code) ==
    IF target = "none"
    THEN outcome' = "printed" /\ UNCHANGED output
    ELSE \E verdict \in Verdicts : WriteOutput(code, verdict)

\* Mutant: the loop hands the partial result on when it gives up.
LoopReturnedPartial ==
    /\ mode = "loop"
    /\ pc = "done"
    /\ outcome = "running"
    /\ IF answer.result # NoCode
       THEN Deliver(answer.result)
       ELSE outcome' = "error" /\ UNCHANGED output
    /\ UNCHANGED <<loopVars, mode, target>>

\* Mutant: nothing is done about a loop that has not converged.
LoopReturnedConverged ==
    /\ mode = "loop"
    /\ pc = "done"
    /\ outcome = "running"
    /\ answer.status = "completed"
    /\ Deliver(answer.result)
    /\ UNCHANGED <<loopVars, mode, target>>

\* The command's view of what the loop has returned: the partial result of a
\* loop that gave up is reported as an error and goes nowhere.
LoopReturned ==
    /\ mode = "loop"
    /\ pc = "done"
    /\ outcome = "running"
    /\ IF answer.status = "completed"
       THEN Deliver(answer.result)
       ELSE outcome' = "error" /\ UNCHANGED output
    /\ UNCHANGED <<loopVars, mode, target>>

\* transpile_with_loop has nothing to do between a language and itself.
Skipped ==
    /\ mode = "loop"
    /\ pc = "idle"
    /\ outcome = "running"
    /\ outcome' = "error"
    /\ UNCHANGED <<loopVars, mode, target, output>>

\* The plain command: one question, extraction, then _scrub_llm_result.
PlainFailed ==
    /\ mode = "plain"
    /\ outcome = "running"
    /\ outcome' = "error"
    /\ UNCHANGED <<loopVars, mode, target, output>>

PlainAnswered ==
    /\ mode = "plain"
    /\ outcome = "running"
    /\ \E extracted \in Texts, verdict \in Verdicts :
         LET decision == Scrubbed(extracted, verdict) IN
         IF decision.action = "deny"
         THEN outcome' = "error" /\ UNCHANGED output
         ELSE Deliver([attempt |-> 1, text |-> decision.text])
    /\ UNCHANGED <<loopVars, mode, target>>

Loop == /\ mode # "plain"
        /\ outcome = "running"
        /\ LoopNext
        /\ UNCHANGED <<mode, target, output, outcome>>

Finished == /\ pc = "done" \/ outcome # "running"
            /\ UNCHANGED vars

Command == Loop \/ LoopReturned \/ Skipped \/ PlainFailed \/ PlainAnswered

Next == Command \/ Finished

\* The model client and the verifying tools have timeouts, so whatever a
\* command waits for comes back.
Spec == Init /\ [][Next]_vars /\ WF_vars(Command)
-----------------------------------------------------------------------------
(* Properties *)

TypeOK ==
    /\ hooks \in Registries
    /\ verify_tool \in {"none", "known", "unknown"}
    /\ max_iter \in 0 .. MaxIterations
    /\ pc \in {"idle", "asking", "executing", "done"}
    /\ i \in 0 .. max_iter
    /\ prompt \in Error /\ last_error \in Error
    /\ last_output \in Code
    /\ traces \in Seq(LoopTrace) /\ file \in Seq(LoopTrace)
    /\ ran \in [code : Code, said : {"nothing", "passed", "failed", "raised"}]
    /\ answer \in LoopAnswer
    /\ mode \in {"plain", "loop", "library"} /\ target \in PathKinds
    /\ output \in Output
    /\ outcome \in Outcomes

\* The prompt of an attempt carries the error of the attempt right before it,
\* of the kind that its trace names, whichever way that attempt failed: no
\* branch that continues (agent_loop.py:113,131,169,223) leaves an older one.
FeedbackIsLatest ==
    pc = "asking" /\ i > 1 =>
        /\ prompt.attempt = i - 1
        /\ <<prompt.kind, Last(traces).decision>> \in
               {<<"llm_failed", "llm_failed_retry">>, <<"denied", "hook_denied">>,
                <<"tool", "retry_with_feedback">>}

\* run answers "verified" exactly when the tool has passed the very code that
\* it returns, in its last attempt: a tool that raises, a denial and a failed
\* question never count as a pass, and no pass is lost (agent_loop.py:148-222).
VerifiedIsPassed ==
    verify_tool # "none" =>
        /\ answer.verified <=> ran.said = "passed"
        /\ answer.verified => /\ answer.result = ran.code
                              /\ answer.result.attempt = answer.iterations

\* What the handlers take out stays out and what they refuse is not run, in
\* any order of redactions: the code that is executed, returned or saved is
\* the text as all of them left it (hooks.py:113-118, safe_writer.py:70-80).
HooksHold ==
    /\ "secret_scrub" \in Registered(hooks, "post_llm") => "secret" \notin last_output.text
    /\ "dangerous_cmd_guard" \in Registered(hooks, "pre_exec") =>
         "destructive" \notin ran.code.text
    /\ "secret" \notin output.text

\* Every attempt that is over has exactly one trace in the answer, in order,
\* but for the one that found no tool; the file has lost some of them at most.
EveryAttemptTraced ==
    /\ \A k \in DOMAIN traces : traces[k].iteration = k
    /\ Len(traces) = IF pc # "done" THEN IF i = 0 THEN 0 ELSE i - 1
                     ELSE IF answer.status = "failed" THEN i - 1 ELSE answer.iterations
    /\ \A j, k \in DOMAIN file : j < k => file[j].iteration < file[k].iteration
    /\ \A k \in DOMAIN file : file[k].iteration \in DOMAIN traces =>
                              traces[file[k].iteration] = file[k]

\* A --loop command saves nothing but the code that the tool has passed, less
\* what the PRE_WRITE handlers took out of it: no partial result, and no older
\* attempt, ever reaches the output file (cli/__init__.py:400,451,501).
SavedWasVerified ==
    mode = "loop" /\ output.attempt # 0 =>
        /\ ran.said = "passed"
        /\ output.attempt = ran.code.attempt
        /\ ran.code.text \ {"secret", "flagged"} \subseteq output.text
        /\ output.text \subseteq ran.code.text

\* Every command and every run of a loop comes to an end, whatever the model,
\* the tool and the handlers answer, and however often they fail.
CommandEnds == <>(IF mode = "library" THEN pc = "done" ELSE outcome # "running")

=============================================================================
