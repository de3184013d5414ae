-------------------------- MODULE CodeCommandProofs --------------------------
(* Proofs about a command and the agent loop that it runs: for any registry of *)
(* handlers, any texts and any number of attempts, what the loop answers as    *)
(* verified has passed, a retry carries the newest error, no attempt is        *)
(* without its trace, what the handlers take out stays out, and what a         *)
(* command saves has passed.                                                   *)
EXTENDS CodeCommand, SequenceTheorems, WellFoundedInduction, TLAPS

-----------------------------------------------------------------------------
(* The inductive invariant *)

\* The attempts that are over when the loop is where it is.
Over == CASE pc = "idle" -> 0
          [] pc \in {"asking", "executing"} -> i - 1
          [] pc = "done" -> IF answer.status = "failed" THEN i - 1 ELSE answer.iterations

\* Where the loop is, and which attempt it is at.
Counted ==
    /\ max_iter \in 0 .. MaxIterations
    /\ pc \in {"idle", "asking", "executing", "done"}
    /\ pc = "idle" => i = 0
    /\ pc \in {"asking", "executing"} => i \in 1 .. max_iter
    /\ pc # "done" => answer = NoAnswer

\* Until the loop has returned the tool has passed nothing.
VerifiedInv ==
    /\ pc = "executing" => last_output.attempt = i
    /\ verify_tool # "none" => /\ pc # "done" => ran.said # "passed"
                               /\ VerifiedIsPassed

\* The traces are those of the attempts that are over; the file has no later one.
TracedInv ==
    /\ traces \in Seq(LoopTrace) /\ file \in Seq(LoopTrace)
    /\ Over \in Nat
    /\ Len(traces) = Over
    /\ \A k \in DOMAIN file : pc # "done" => file[k].iteration <= Over
    /\ EveryAttemptTraced

Inv == Counted /\ VerifiedInv /\ FeedbackIsLatest /\ TracedInv

-----------------------------------------------------------------------------
(* Traces *)

\* The entries of a file are of attempts in their order, up to n, and agree with the traces.
Ordered(entries, log, n) ==
    /\ \A k \in DOMAIN log : log[k].iteration = k
    /\ \A j, k \in DOMAIN entries : j < k => entries[j].iteration < entries[k].iteration
    /\ \A k \in DOMAIN entries : entries[k].iteration <= n
    /\ \A k \in DOMAIN entries : entries[k].iteration \in DOMAIN log => log[entries[k].iteration] = entries[k]

\* The attempt that is over is traced, in memory at least.
LEMMA TracedOnce ==
    ASSUME NEW entries \in Seq(LoopTrace), NEW log \in Seq(LoopTrace), NEW trace \in LoopTrace,
           Ordered(entries, log, Len(log)), trace.iteration = Len(log) + 1,
           NEW written \in {entries, Append(entries, trace)}
    PROVE  /\ written \in Seq(LoopTrace) /\ Append(log, trace) \in Seq(LoopTrace)
           /\ Len(Append(log, trace)) = Len(log) + 1
           /\ Ordered(written, Append(log, trace), Len(log) + 1)
           /\ Ordered(written, log, Len(log) + 1)
<1>1. /\ Append(log, trace) \in Seq(LoopTrace)
      /\ Len(log) \in Nat /\ Len(Append(log, trace)) = Len(log) + 1
      /\ DOMAIN log = 1 .. Len(log) /\ DOMAIN Append(log, trace) = 1 .. Len(log) + 1
      /\ \A k \in 1 .. Len(log) : Append(log, trace)[k] = log[k]
      /\ Append(log, trace)[Len(log) + 1] = trace
  BY AppendProperties
<1>2. /\ Append(entries, trace) \in Seq(LoopTrace)
      /\ Len(entries) \in Nat
      /\ DOMAIN entries = 1 .. Len(entries)
      /\ DOMAIN Append(entries, trace) = 1 .. Len(entries) + 1
      /\ \A k \in 1 .. Len(entries) : Append(entries, trace)[k] = entries[k]
      /\ Append(entries, trace)[Len(entries) + 1] = trace
  BY AppendProperties
<1>3. \A k \in DOMAIN entries : entries[k].iteration \in 1 .. MaxIterations
  <2>1. \A k \in DOMAIN entries : entries[k] \in LoopTrace
    BY <1>2, ElementOfSeq
  <2> QED
    BY <2>1 DEF LoopTrace
<1> DEFINE new == Append(log, trace)
<1>4. CASE written = entries
  BY <1>1, <1>2, <1>3, <1>4, IterationsAssumption DEF Ordered
<1>5. CASE written = Append(entries, trace)
  <2> DEFINE longer == Append(entries, trace)
  <2> HIDE DEF longer, new
  <2>1. \A k \in DOMAIN longer : longer[k].iteration <= Len(log) + 1
    BY <1>1, <1>2, <1>3, IterationsAssumption DEF Ordered, longer
  <2>2. \A j, k \in DOMAIN longer : j < k => longer[j].iteration < longer[k].iteration
    BY <1>1, <1>2, <1>3, IterationsAssumption DEF Ordered, longer
  <2>3. \A k \in DOMAIN longer : longer[k].iteration \in DOMAIN log => log[longer[k].iteration] = longer[k]
    BY <1>1, <1>2, <1>3, IterationsAssumption DEF Ordered, longer
  <2>4. \A k \in DOMAIN longer : longer[k].iteration \in DOMAIN new => new[longer[k].iteration] = longer[k]
    BY <1>1, <1>2, <1>3, IterationsAssumption DEF Ordered, longer, new
  <2>5. \A k \in DOMAIN new : new[k].iteration = k
    BY <1>1 DEF Ordered, new
  <2> QED
    BY <1>1, <1>2, <1>5, <2>1, <2>2, <2>3, <2>4, <2>5 DEF Ordered, longer, new
<1> QED
  BY <1>4, <1>5

\* TracedInv in terms of Ordered, while the loop goes on.
LEMMA TracedIsOrdered ==
    ASSUME Counted, TracedInv, pc \in {"asking", "executing"}
    PROVE  /\ Ordered(file, traces, Len(traces))
           /\ traces \in Seq(LoopTrace) /\ file \in Seq(LoopTrace)
           /\ Len(traces) = i - 1 /\ i \in Nat /\ i \in 1 .. MaxIterations
<1>1. Over = i - 1
  BY DEF Over
<1>2. i \in 1 .. MaxIterations /\ i \in Nat
  BY IterationsAssumption DEF Counted
<1>3. Ordered(file, traces, Len(traces))
  BY <1>1, <1>2 DEF TracedInv, EveryAttemptTraced, Ordered
<1> QED
  BY <1>1, <1>2, <1>3 DEF TracedInv

\* The other way round, after a step.
LEMMA OrderedIsTraced ==
    ASSUME Counted', traces' \in Seq(LoopTrace), file' \in Seq(LoopTrace), Over' \in Nat,
           Len(traces') = Over', NEW n, Ordered(file', traces', n), pc' # "done" => n = Over'
    PROVE  TracedInv'
<1>1. Len(traces') = IF pc' # "done" THEN IF i' = 0 THEN 0 ELSE i' - 1
                     ELSE IF answer'.status = "failed" THEN i' - 1 ELSE answer'.iterations
  BY DEF Over, Counted
<1>2. EveryAttemptTraced'
  BY <1>1 DEF Ordered, EveryAttemptTraced
<1>3. \A k \in DOMAIN file' : pc' # "done" => file'[k].iteration <= Over'
  BY DEF Ordered
<1> QED
  BY <1>2, <1>3 DEF TracedInv

\* A step that traces the attempt, which is over then.
LEMMA TracedStep ==
    ASSUME Counted, TracedInv, pc \in {"asking", "executing"}, Counted',
           NEW decision \in LoopDecision, Traced(decision), Over' = i
    PROVE  TracedInv' /\ Last(traces').decision = decision
<1> DEFINE trace == [iteration |-> i, decision |-> decision]
<1>1. /\ Ordered(file, traces, Len(traces))
      /\ traces \in Seq(LoopTrace) /\ file \in Seq(LoopTrace)
      /\ Len(traces) = i - 1 /\ i \in Nat /\ trace \in LoopTrace
  BY TracedIsOrdered DEF LoopTrace
<1>2. traces' = Append(traces, trace) /\ file' \in {file, Append(file, trace)}
  BY DEF Traced, Written
<1>3. trace.iteration = Len(traces) + 1
  BY <1>1
<1> HIDE DEF trace
<1>4. /\ traces' \in Seq(LoopTrace) /\ file' \in Seq(LoopTrace)
      /\ Len(traces') = i /\ Ordered(file', traces', i)
  <2>1. /\ file' \in Seq(LoopTrace) /\ Append(traces, trace) \in Seq(LoopTrace)
        /\ Len(Append(traces, trace)) = Len(traces) + 1
        /\ Ordered(file', Append(traces, trace), Len(traces) + 1)
    BY <1>1, <1>2, <1>3, TracedOnce
  <2> QED
    BY <1>1, <1>2, <2>1
<1>5. TracedInv'
  BY <1>1, <1>4, OrderedIsTraced
<1>6. Last(traces') = trace
  BY <1>1, <1>2, AppendProperties DEF Last
<1> QED
  BY <1>5, <1>6 DEF trace

\* A step that stops at once: its trace is in the file only, if at all.
LEMMA FailedFast ==
    ASSUME Inv, pc \in {"asking", "executing"}, NEW error,
           Written([iteration |-> i, decision |-> "unknown_tool_fail_fast"]),
           Return("failed", NoCode, FALSE, error),
           UNCHANGED <<Settings, traces>>,
           verify_tool # "none" => ran'.said # "passed"
    PROVE  Inv'
<1> DEFINE trace == [iteration |-> i, decision |-> "unknown_tool_fail_fast"]
<1>1. /\ Ordered(file, traces, Len(traces))
      /\ traces \in Seq(LoopTrace) /\ file \in Seq(LoopTrace)
      /\ Len(traces) = i - 1 /\ i \in Nat /\ trace \in LoopTrace
  BY TracedIsOrdered DEF LoopTrace, LoopDecision, Inv
<1>2. traces' = traces /\ file' \in {file, Append(file, trace)}
  BY DEF Written
<1>3. /\ pc' = "done" /\ i' = i /\ max_iter' = max_iter /\ verify_tool' = verify_tool
      /\ answer'.status = "failed" /\ answer'.verified = FALSE
  BY DEF Return, Settings
<1>4. Counted'
  BY <1>3 DEF Inv, Counted
<1>5. trace.iteration = Len(traces) + 1
  BY <1>1
<1> HIDE DEF trace
<1>6. file' \in Seq(LoopTrace) /\ Ordered(file', traces', i)
  <2>1. file' \in Seq(LoopTrace) /\ Ordered(file', traces, Len(traces) + 1)
    BY <1>1, <1>2, <1>5, TracedOnce
  <2> QED
    BY <1>1, <1>2, <2>1
<1>7. Over' = i - 1
  BY <1>3 DEF Over
<1>8. TracedInv'
  <2>1. Over' \in Nat /\ Len(traces') = Over' /\ pc' = "done"
    BY <1>1, <1>2, <1>3, <1>7
  <2> QED
    BY <1>1, <1>2, <1>4, <1>6, <2>1, OrderedIsTraced
<1> QED
  BY <1>3, <1>4, <1>8 DEF Inv, VerifiedInv, VerifiedIsPassed, FeedbackIsLatest

-----------------------------------------------------------------------------
(* The branches of an attempt *)

Feedback == {<<"llm_failed", "llm_failed_retry">>, <<"denied", "hook_denied">>,
             <<"tool", "retry_with_feedback">>}

\* A branch that continues.
LEMMA RetryInv ==
    ASSUME Inv, pc \in {"asking", "executing"}, NEW said, NEW kind, NEW decision,
           <<kind, decision>> \in Feedback,
           Retry(said, kind, decision), UNCHANGED Settings,
           verify_tool # "none" => ran'.said # "passed"
    PROVE  Inv'
<1> DEFINE error == [attempt |-> i, kind |-> kind]
<1>1. /\ decision \in LoopDecision /\ Traced(decision) /\ NextAttempt(i, said, error)
      /\ max_iter' = max_iter /\ verify_tool' = verify_tool
  BY DEF Feedback, LoopDecision, Retry, Settings
<1>2. i \in 1 .. max_iter /\ max_iter \in Nat /\ i \in Nat /\ answer = NoAnswer
  BY IterationsAssumption DEF Inv, Counted
<1>3. CASE i < max_iter
  <2>1. pc' = "asking" /\ i' = i + 1 /\ prompt' = error /\ answer' = NoAnswer
    BY <1>1, <1>2, <1>3 DEF NextAttempt
  <2>2. Counted' /\ Over' = i
    BY <1>1, <1>2, <1>3, <2>1 DEF Inv, Counted, Over
  <2>3. TracedInv' /\ Last(traces').decision = decision
    BY <1>1, <2>2, TracedStep DEF Inv
  <2>4. FeedbackIsLatest'
    BY <1>2, <2>1, <2>3 DEF FeedbackIsLatest, Feedback
  <2>5. VerifiedInv'
    BY <1>1, <2>1 DEF VerifiedInv, VerifiedIsPassed, NoAnswer
  <2> QED
    BY <2>2, <2>3, <2>4, <2>5 DEF Inv
<1>4. CASE ~(i < max_iter)
  <2>1. /\ pc' = "done" /\ i' = i
        /\ answer'.status = "max_iter_reached" /\ answer'.iterations = max_iter
        /\ answer'.verified = FALSE
    BY <1>1, <1>4 DEF NextAttempt
  <2>2. Counted' /\ Over' = i
    BY <1>1, <1>2, <1>4, <2>1 DEF Inv, Counted, Over
  <2>3. TracedInv'
    BY <1>1, <2>2, TracedStep DEF Inv
  <2> QED
    BY <1>1, <2>1, <2>2, <2>3 DEF Inv, VerifiedInv, VerifiedIsPassed, FeedbackIsLatest
<1> QED
  BY <1>3, <1>4

\* A branch that returns "completed".
LEMMA PassedInv ==
    ASSUME Inv, pc \in {"asking", "executing"}, NEW code, NEW error,
           Traced("pass"), Return("completed", code, TRUE, error), UNCHANGED Settings,
           verify_tool # "none" => ran' = [code |-> code, said |-> "passed"] /\ code.attempt = i
    PROVE  Inv'
<1>1. /\ pc' = "done" /\ i' = i /\ max_iter' = max_iter /\ verify_tool' = verify_tool
      /\ answer'.status = "completed" /\ answer'.iterations = i /\ answer'.verified = TRUE
      /\ answer'.result = code
  BY DEF Return, Settings
<1>2. Counted' /\ Over' = i
  BY <1>1 DEF Inv, Counted, Over
<1>3. TracedInv'
  BY <1>2, TracedStep DEF Inv, LoopDecision
<1>4. VerifiedInv'
  BY <1>1 DEF VerifiedInv, VerifiedIsPassed
<1> QED
  BY <1>1, <1>2, <1>3, <1>4 DEF Inv, FeedbackIsLatest

-----------------------------------------------------------------------------
(* All steps *)

LEMMA InitInv == ASSUME Init PROVE Inv
BY EmptySeq DEF Init, LoopInit, Inv, Counted, VerifiedInv, VerifiedIsPassed, FeedbackIsLatest,
   TracedInv, EveryAttemptTraced, Over, NoAnswer, NotRun

LEMMA RunInv == ASSUME Inv, Run PROVE Inv'
<1>1. /\ pc = "idle" /\ max_iter' = max_iter /\ verify_tool' = verify_tool /\ ran' = ran
      /\ traces' = traces /\ file' = file /\ NextAttempt(0, NoCode, NoError)
  BY DEF Run, Settings
<1>2. max_iter \in Nat /\ i = 0 /\ answer = NoAnswer /\ Over = 0
  BY <1>1, IterationsAssumption DEF Inv, Counted, Over
<1>3. CASE 0 < max_iter
  <2>1. pc' = "asking" /\ i' = 1 /\ answer' = NoAnswer
    BY <1>1, <1>2, <1>3 DEF NextAttempt
  <2>2. Counted' /\ Over' = 0
    BY <1>1, <1>2, <1>3, <2>1 DEF Inv, Counted, Over
  <2>3. TracedInv'
    BY <1>1, <1>2, <2>1, <2>2 DEF Inv, TracedInv, EveryAttemptTraced
  <2> QED
    BY <1>1, <2>1, <2>2, <2>3 DEF Inv, VerifiedInv, VerifiedIsPassed, FeedbackIsLatest, NoAnswer
<1>4. CASE ~(0 < max_iter)
  <2>1. /\ pc' = "done" /\ i' = i /\ answer'.status = "max_iter_reached"
        /\ answer'.iterations = 0 /\ answer'.verified = FALSE
    BY <1>1, <1>2, <1>4 DEF NextAttempt
  <2>2. Counted' /\ Over' = 0
    BY <1>1, <1>2, <2>1 DEF Inv, Counted, Over
  <2>3. TracedInv'
    BY <1>1, <1>2, <2>1, <2>2 DEF Inv, TracedInv, EveryAttemptTraced
  <2> QED
    BY <1>1, <2>1, <2>2, <2>3 DEF Inv, VerifiedInv, VerifiedIsPassed, FeedbackIsLatest
<1> QED
  BY <1>3, <1>4

\* While the model is asked the tool has passed nothing.
LEMMA NotPassed ==
    ASSUME Inv, pc # "done", verify_tool # "none", ran' = ran
    PROVE  ran'.said # "passed"
BY DEF Inv, VerifiedInv

LEMMA AnsweredInv ==
    ASSUME Inv, NEW raw \in Texts, NEW verdict \in Verdicts,
           \/ PostLLMDenied(raw, verdict) \/ PreExecDenied(raw, verdict)
           \/ Execute(raw, verdict) \/ UnknownTool(raw, verdict) \/ Unverified(raw, verdict)
    PROVE  Inv'
<1>1. CASE PostLLMDenied(raw, verdict)
  BY <1>1, RetryInv, NotPassed DEF PostLLMDenied, Feedback
<1>2. CASE PreExecDenied(raw, verdict)
  <2>1. PICK code \in Produced(raw, verdict) : Retry(code, "denied", "hook_denied")
    BY <1>2 DEF PreExecDenied
  <2> QED
    BY <1>2, <2>1, RetryInv, NotPassed DEF PreExecDenied, Feedback
<1>3. CASE Execute(raw, verdict)
  <2>1. /\ pc = "asking" /\ pc' = "executing" /\ last_output'.attempt = i
        /\ UNCHANGED <<Settings, i, traces, file, ran, answer>>
    BY <1>3 DEF Execute, Produced
  <2>2. Counted'
    BY <2>1 DEF Inv, Counted, Settings
  <2>3. TracedInv'
    BY <2>1 DEF Inv, TracedInv, EveryAttemptTraced, Over
  <2>4. VerifiedInv' /\ FeedbackIsLatest'
    BY <2>1 DEF Inv, VerifiedInv, VerifiedIsPassed, FeedbackIsLatest, Settings
  <2> QED
    BY <2>2, <2>3, <2>4 DEF Inv
<1>4. CASE UnknownTool(raw, verdict)
  BY <1>4, FailedFast, NotPassed DEF UnknownTool
<1>5. CASE Unverified(raw, verdict)
  <2>1. PICK code \in Produced(raw, verdict) : Return("completed", code, TRUE, NoError)
    BY <1>5 DEF Unverified
  <2> QED
    BY <1>5, <2>1, PassedInv DEF Unverified
<1> QED
  BY <1>1, <1>2, <1>3, <1>4, <1>5

LEMMA LoopInv == ASSUME Inv, LoopNext PROVE Inv'
<1>1. CASE Run
  BY <1>1, RunInv
<1>2. CASE ChatFailed
  BY <1>2, RetryInv, NotPassed DEF ChatFailed, Feedback
<1>3. CASE ModelAnswered
  BY <1>3, AnsweredInv DEF ModelAnswered
<1>4. CASE ToolPassed
  <2>1. last_output.attempt = i
    BY <1>4 DEF ToolPassed, Inv, VerifiedInv
  <2> QED
    BY <1>4, <2>1, PassedInv DEF ToolPassed
<1>5. CASE ToolRaisedKeyError
  BY <1>5, FailedFast DEF ToolRaisedKeyError
<1>6. ASSUME NEW said \in {"failed", "raised"}, ToolFailed(said) PROVE Inv'
  BY <1>6, RetryInv DEF ToolFailed, Feedback
<1> QED
  BY <1>1, <1>2, <1>3, <1>4, <1>5, <1>6 DEF LoopNext

LEMMA NextInv == ASSUME Inv, [Next]_vars PROVE Inv'
<1>1. CASE Loop
  BY <1>1, LoopInv DEF Loop
<1>2. CASE UNCHANGED loopVars
  BY <1>2 DEF loopVars, Inv, Counted, VerifiedInv, VerifiedIsPassed, FeedbackIsLatest, TracedInv,
              EveryAttemptTraced, Over
<1> QED
  BY <1>1, <1>2 DEF Next, Command, LoopReturned, Skipped, PlainFailed, PlainAnswered, Finished, vars

-----------------------------------------------------------------------------
(* Chains of handlers *)

\* A set of numbers that has the first, and with each the next one, has all.
LEMMA AllOfThem ==
    ASSUME NEW N \in Nat, NEW S, 0 \in S, \A n \in 1 .. N : n - 1 \in S => n \in S
    PROVE  0 .. N \subseteq S
<1> DEFINE T == {n \in 0 .. N : n \notin S}
           Less == {pair \in Nat \X Nat : pair[1] < pair[2]}
<1> SUFFICES ASSUME T # {} PROVE FALSE
  OBVIOUS
<1>1. IsWellFoundedOn(Less, Nat)
  BY NatLessThanWellFounded, Zenon DEF OpToRel
<1>2. T \subseteq Nat
  OBVIOUS
<1> HIDE DEF Less
<1>3. PICK n \in T : \A k \in T : <<k, n>> \notin Less
  BY <1>1, <1>2, WFMin
<1>4. \A k \in T : ~(k < n)
  BY <1>2, <1>3 DEF Less
<1>5. n \in 1 .. N /\ n - 1 \in 0 .. N /\ n - 1 < n
  OBVIOUS
<1>6. n - 1 \in S
  BY <1>4, <1>5
<1> QED BY <1>3, <1>5, <1>6

\* What a loop over N things makes of d.
Steps(D, N) == [1 .. N -> [D -> D]]
Looped(D, d, N, step, a) ==
    a \in [0 .. N -> D] /\ a[0] = d /\ \A n \in 1 .. N : a[n] = step[n][a[n - 1]]

LEMMA LoopExists ==
    ASSUME NEW D, NEW d \in D, NEW N \in Nat, NEW step \in Steps(D, N)
    PROVE  \E a : Looped(D, d, N, step, a)
<1> DEFINE Made(m, a) == a[0] = d /\ \A n \in 1 .. m : a[n] = step[n][a[n - 1]]
           S == {m \in 0 .. N : \E a \in [0 .. m -> D] : Made(m, a)}
<1>1. 0 \in S
  <2> DEFINE a == [n \in 0 .. 0 |-> d]
  <2>1. a \in [0 .. 0 -> D] /\ Made(0, a)
    OBVIOUS
  <2> HIDE DEF a, Made
  <2> QED BY <2>1
<1>2. ASSUME NEW m \in 1 .. N, m - 1 \in S PROVE m \in S
  <2>1. PICK a \in [0 .. m - 1 -> D] : Made(m - 1, a)
    BY <1>2
  <2> DEFINE b == [n \in 0 .. m |-> IF n = m THEN step[m][a[m - 1]] ELSE a[n]]
  <2>2. m - 1 \in 0 .. m - 1 /\ a[m - 1] \in D
    OBVIOUS
  <2>3. step[m][a[m - 1]] \in D
    BY <2>2 DEF Steps
  <2>4. b \in [0 .. m -> D] /\ b[0] = d /\ b[m] = step[m][a[m - 1]]
        /\ \A n \in 0 .. m - 1 : b[n] = a[n]
    BY <2>1, <2>3
  <2> HIDE DEF b
  <2>5. ASSUME NEW n \in 1 .. m PROVE b[n] = step[n][b[n - 1]]
    <3>1. CASE n = m
      BY <2>2, <2>4, <3>1
    <3>2. CASE n # m
      <4>1. n \in 1 .. m - 1 /\ n - 1 \in 0 .. m - 1 /\ n \in 0 .. m - 1
        BY <3>2
      <4>2. b[n] = a[n] /\ b[n - 1] = a[n - 1] /\ a[n] = step[n][a[n - 1]]
        BY <2>1, <2>4, <4>1
      <4> QED BY <4>2
    <3> QED BY <3>1, <3>2
  <2>6. Made(m, b) /\ m \in 0 .. N
    BY <2>4, <2>5
  <2> HIDE DEF Made
  <2> QED BY <2>4, <2>6
<1> HIDE DEF S
<1>3. 0 .. N \subseteq S
  BY <1>1, <1>2, AllOfThem
<1>4. N \in S
  BY <1>3
<1> QED BY <1>4 DEF S, Looped

\* What one more handler makes of a decision.
OneMore(handler, payload, verdict, decision) ==
    Follow(decision, Decide(handler, [payload EXCEPT !.text = decision.text], verdict))

LEMMA OneMoreType ==
    ASSUME NEW handler, NEW payload \in Payload, NEW verdict, NEW decision \in Decision
    PROVE  /\ OneMore(handler, payload, verdict, decision) \in Decision
           /\ OneMore(handler, payload, verdict, decision).text \subseteq decision.text
           /\ decision.text \ {"secret", "flagged"}
                \subseteq OneMore(handler, payload, verdict, decision).text
           /\ OneMore(handler, payload, verdict, decision).action # "deny" =>
                /\ decision.action # "deny"
                /\ handler = "secret_scrub" =>
                     "secret" \notin OneMore(handler, payload, verdict, decision).text
                /\ handler = "dangerous_cmd_guard" => "destructive" \notin decision.text
<1> DEFINE seen == [payload EXCEPT !.text = decision.text]
           next == Decide(handler, seen, verdict)
<1>1. seen.text = decision.text /\ decision.text \in Texts
  BY DEF Payload, Decision
<1>2. next \in {Deny(seen.text), Allow(seen.text), Modify(seen.text \ {"secret"}),
                Modify(seen.text \ {"flagged"})}
  BY DEF Decide, Evaluate
<1>3. next \in Decision /\ next.text \subseteq decision.text
      /\ decision.text \ {"secret", "flagged"} \subseteq next.text
  BY <1>1, <1>2 DEF Decision, Deny, Allow, Modify, Texts
<1>4. handler = "secret_scrub" => \/ next = Modify(seen.text \ {"secret"})
                                  \/ "secret" \notin seen.text /\ next = Allow(seen.text)
  BY DEF Decide
<1>5. handler = "dangerous_cmd_guard" /\ "destructive" \in seen.text => next = Deny(seen.text)
  BY DEF Decide
<1> HIDE DEF next, seen
<1>6. OneMore(handler, payload, verdict, decision)
        = IF decision.action = "deny" \/ next.action = "allow" THEN decision ELSE next
  BY DEF OneMore, Follow, next, seen
<1>7. \A t : /\ Deny(t).action = "deny" /\ Allow(t).action = "allow" /\ Modify(t).action = "modify"
             /\ Modify(t).text = t
  BY DEF Deny, Allow, Modify
<1> QED BY <1>1, <1>3, <1>4, <1>5, <1>6, <1>7

\* A chain goes from the payload's text to what is emitted, a handler at a time.
LEMMA EmitIsChain ==
    ASSUME NEW handlers \in Seq(Handlers), NEW payload \in Payload, NEW verdict
    PROVE  \E after : /\ after[0] = Allow(payload.text)
                      /\ \A n \in 1 .. Len(handlers) :
                           after[n] = OneMore(handlers[n], payload, verdict, after[n - 1])
                      /\ Emit(handlers, payload, verdict) = after[Len(handlers)]
<1> DEFINE N == Len(handlers)
           F(g) == [n \in 0 .. N |->
                      IF n = 0 THEN Allow(payload.text)
                      ELSE Follow(g[n - 1], Decide(handlers[n],
                                     [payload EXCEPT !.text = g[n - 1].text], verdict))]
           after == CHOOSE g : g = F(g)
           step == [n \in 1 .. N |-> [d \in Decision |->
                      OneMore(handlers[n], payload, verdict, d)]]
<1>1. Emit(handlers, payload, verdict) = after[N]
  BY DEF Emit
<1>2. N \in Nat /\ Allow(payload.text) \in Decision
  BY DEF Allow, Payload, Decision
<1>3. step \in Steps(Decision, N)
  BY OneMoreType DEF Steps
<1>4. PICK a \in [0 .. N -> Decision] : /\ a[0] = Allow(payload.text)
                                        /\ \A n \in 1 .. N : a[n] = step[n][a[n - 1]]
  <2>1. PICK m \in Nat : m = N
    BY <1>2
  <2>2. PICK first \in Decision : first = Allow(payload.text)
    BY <1>2
  <2>3. PICK st \in Steps(Decision, m) : st = step
    BY <1>3, <2>1
  <2>4. PICK a : Looped(Decision, first, m, st, a)
    BY LoopExists
  <2> HIDE DEF step, N, F, after
  <2> QED BY <2>1, <2>2, <2>3, <2>4 DEF Looped
<1>5. \A n \in 1 .. N : n - 1 \in 0 .. N /\ a[n - 1] \in Decision
  BY <1>2
<1>6. \A n \in 1 .. N : a[n] = OneMore(handlers[n], payload, verdict, a[n - 1])
  BY <1>4, <1>5
<1>7. a = F(a)
  <2> HIDE DEF N
  <2>1. \A n \in 0 .. N : n # 0 => n \in 1 .. N
    BY <1>2
  <2> QED BY <1>4, <1>6, <2>1 DEF OneMore
<1> HIDE DEF F
<1>8. after = F(after)
  BY <1>7
<1> HIDE DEF after
<1>9. after[0] = Allow(payload.text)
      /\ \A n \in 1 .. N : after[n] = OneMore(handlers[n], payload, verdict, after[n - 1])
  <2> HIDE DEF N
  <2>1. 0 \in 0 .. N /\ \A n \in 1 .. N : n \in 0 .. N /\ n # 0
    BY <1>2
  <2>2. \A n \in 0 .. N : after[n] = F(after)[n]
    BY <1>8
  <2> QED BY <2>1, <2>2 DEF F, OneMore
<1> QED BY <1>1, <1>9

\* What comes out of a chain is part of what went in, less only what a handler may
\* take out; when it is not denied, secret_scrub has taken the secrets out, and
\* dangerous_cmd_guard has let the text pass.
LEMMA EmitFacts ==
    ASSUME NEW handlers \in Seq(Handlers), NEW payload \in Payload, NEW verdict
    PROVE  LET decision == Emit(handlers, payload, verdict) IN
           /\ decision \in Decision
           /\ decision.text \subseteq payload.text
           /\ payload.text \ {"secret", "flagged"} \subseteq decision.text
           /\ decision.action # "deny" => \A k \in DOMAIN handlers :
                /\ handlers[k] = "secret_scrub" => "secret" \notin decision.text
                /\ handlers[k] = "dangerous_cmd_guard" => "destructive" \notin payload.text
<1>1. PICK after : /\ after[0] = Allow(payload.text)
                   /\ \A n \in 1 .. Len(handlers) :
                        after[n] = OneMore(handlers[n], payload, verdict, after[n - 1])
                   /\ Emit(handlers, payload, verdict) = after[Len(handlers)]
  BY EmitIsChain
<1> DEFINE N == Len(handlers)
           Good(n) == LET decision == after[n] IN
               /\ decision \in Decision
               /\ decision.text \subseteq payload.text
               /\ payload.text \ {"secret", "flagged"} \subseteq decision.text
               /\ decision.action # "deny" => \A k \in 1 .. n :
                    /\ handlers[k] = "secret_scrub" => "secret" \notin decision.text
                    /\ handlers[k] = "dangerous_cmd_guard" => "destructive" \notin payload.text
           S == {n \in 0 .. N : Good(n)}
<1>2. N \in Nat /\ DOMAIN handlers = 1 .. N
  OBVIOUS
<1> HIDE DEF N
<1>3. 0 \in S
  <2>1. Allow(payload.text) \in Decision /\ Allow(payload.text).text = payload.text
    BY DEF Allow, Payload, Decision
  <2> QED BY <1>1, <1>2, <2>1
<1>4. ASSUME NEW n \in 1 .. N, n - 1 \in S PROVE n \in S
  <2> DEFINE d == after[n - 1]
             e == after[n]
  <2>1. Good(n - 1)
    BY <1>4
  <2>2. e = OneMore(handlers[n], payload, verdict, d)
    BY <1>1 DEF N
  <2>3. d \in Decision
    BY <2>1
  <2> HIDE DEF d, e
  <2>4. /\ e \in Decision /\ e.text \subseteq d.text
        /\ d.text \ {"secret", "flagged"} \subseteq e.text
        /\ e.action # "deny" => /\ d.action # "deny"
                                /\ handlers[n] = "secret_scrub" => "secret" \notin e.text
                                /\ handlers[n] = "dangerous_cmd_guard" => "destructive" \notin d.text
    BY <2>2, <2>3, OneMoreType
  <2>5. d.text \subseteq payload.text /\ payload.text \ {"secret", "flagged"} \subseteq d.text
    BY <2>1 DEF d
  <2>6. ASSUME e.action # "deny", NEW k \in 1 .. n
        PROVE  /\ handlers[k] = "secret_scrub" => "secret" \notin e.text
               /\ handlers[k] = "dangerous_cmd_guard" => "destructive" \notin payload.text
    <3>1. CASE k = n
      BY <2>4, <2>5, <2>6, <3>1
    <3>2. CASE k # n
      <4>1. k \in 1 .. n - 1
        BY <3>2
      <4>2. /\ handlers[k] = "secret_scrub" => "secret" \notin d.text
            /\ handlers[k] = "dangerous_cmd_guard" => "destructive" \notin payload.text
        BY <2>1, <2>4, <2>6, <4>1 DEF d
      <4> QED BY <2>4, <4>2
    <3> QED BY <3>1, <3>2
  <2>7. Good(n)
    <3>1. e.text \subseteq payload.text /\ payload.text \ {"secret", "flagged"} \subseteq e.text
      BY <2>4, <2>5
    <3> QED BY <2>4, <2>6, <3>1 DEF e
  <2> HIDE DEF Good
  <2>8. n \in 0 .. N
    BY <1>2
  <2> QED BY <2>7, <2>8
<1>5. N \in S
  <2> HIDE DEF S
  <2> QED BY <1>2, <1>3, <1>4, AllOfThem
<1>6. Good(N)
  BY <1>5
<1> QED BY <1>1, <1>2, <1>6 DEF N

-----------------------------------------------------------------------------
(* Types *)

\* The next attempt, or the end after the last one.
LEMMA NextAttemptType ==
    ASSUME TypeOK, NEW n \in 0 .. max_iter, n = i, NEW result \in Code, NEW error \in Error,
           NextAttempt(n, result, error)
    PROVE  /\ i' \in 0 .. max_iter /\ prompt' \in Error /\ answer' \in LoopAnswer
           /\ pc' \in {"asking", "done"}
<1>1. max_iter \in 0 .. MaxIterations /\ MaxIterations \in Nat /\ prompt \in Error
      /\ answer \in LoopAnswer /\ i \in 0 .. max_iter /\ NoError \in Error
  BY IterationsAssumption DEF TypeOK, NoError, Error
<1>2. CASE n < max_iter
  <2>1. n + 1 \in 0 .. max_iter
    BY <1>1, <1>2
  <2> QED BY <1>1, <1>2, <2>1 DEF NextAttempt
<1>3. CASE ~(n < max_iter)
  <2>1. /\ answer' = [status |-> "max_iter_reached", result |-> result,
                      verified |-> FALSE, iterations |-> max_iter, last_error |-> error]
        /\ pc' = "done" /\ i' = i /\ prompt' = prompt
    BY <1>3 DEF NextAttempt
  <2>2. answer' \in LoopAnswer
    BY <1>1, <2>1 DEF LoopAnswer, LoopStatus
  <2> QED BY <1>1, <2>1, <2>2
<1> QED BY <1>2, <1>3

LEMMA RetryType ==
    ASSUME TypeOK, Counted, pc \in {"asking", "executing"}, NEW result \in Code,
           NEW kind \in {"llm_failed", "denied", "tool"}, NEW decision,
           Retry(result, kind, decision)
    PROVE  /\ last_output' \in Code /\ last_error' \in Error
           /\ i' \in 0 .. max_iter /\ prompt' \in Error /\ answer' \in LoopAnswer
           /\ pc' \in {"asking", "done"}
<1> DEFINE error == [attempt |-> i, kind |-> kind]
<1>1. i \in 0 .. max_iter /\ i \in 0 .. MaxIterations
  BY IterationsAssumption DEF TypeOK, Counted
<1>2. error \in Error
  BY <1>1 DEF Error
<1>3. last_output' = result /\ last_error' = error /\ NextAttempt(i, result, error)
  BY DEF Retry
<1> HIDE DEF error
<1> QED BY <1>1, <1>2, <1>3, NextAttemptType

LEMMA ReturnType ==
    ASSUME TypeOK, NEW status \in LoopStatus, NEW result \in Code, NEW verified \in BOOLEAN,
           NEW error \in Error, Return(status, result, verified, error)
    PROVE  /\ i' \in 0 .. max_iter /\ prompt' \in Error /\ answer' \in LoopAnswer
           /\ pc' = "done"
<1>1. i \in 0 .. max_iter /\ i \in 0 .. MaxIterations /\ prompt \in Error
  BY IterationsAssumption DEF TypeOK
<1> QED BY <1>1 DEF Return, LoopAnswer

\* The texts that handlers see.
LEMMA ScrubbedType ==
    ASSUME TypeOK, NEW raw \in Texts, NEW verdict
    PROVE  /\ Scrubbed(raw, verdict) \in Decision
           /\ Scrubbed(raw, verdict).action # "deny"
                /\ "secret_scrub" \in Registered(hooks, "post_llm")
              => "secret" \notin Scrubbed(raw, verdict).text
<1> DEFINE payload == [text |-> raw, path |-> "none"]
<1>1. payload \in Payload
  BY DEF Payload, PathKinds
<1>2. hooks.post_llm \in Seq(Handlers) /\ hooks["post_llm"] = hooks.post_llm
  BY RegistriesAssumption DEF TypeOK, Events
<1>3. Scrubbed(raw, verdict) = Emit(hooks.post_llm, payload, verdict)
  BY DEF Scrubbed
<1> HIDE DEF payload
<1> QED BY <1>1, <1>2, <1>3, EmitFacts DEF Registered

LEMMA ProducedType ==
    ASSUME TypeOK, Counted, pc = "asking", NEW raw \in Texts, NEW verdict,
           NEW code \in Produced(raw, verdict)
    PROVE  code \in Code /\ code.text \subseteq Scrubbed(raw, verdict).text
<1>1. i \in 0 .. MaxIterations
  BY IterationsAssumption DEF TypeOK, Counted
<1>2. Scrubbed(raw, verdict).text \in Texts
  BY ScrubbedType DEF Decision
<1> QED BY <1>1, <1>2 DEF Produced, Code, Texts

-----------------------------------------------------------------------------
(* What the handlers let through, and what is saved of it *)

HandledInv ==
    /\ "secret_scrub" \in Registered(hooks, "post_llm") => "secret" \notin last_output.text
    /\ "dangerous_cmd_guard" \in Registered(hooks, "pre_exec") =>
         /\ "destructive" \notin ran.code.text
         /\ pc = "executing" => "destructive" \notin last_output.text
    /\ "secret" \notin output.text

\* A command saves at its end only, and a loop that has completed has verified.
SavedInv ==
    /\ mode = "loop" => /\ verify_tool = "known"
                        /\ outcome = "running" => output.attempt = 0
                        /\ answer.status = "completed" => answer.verified
    /\ SavedWasVerified

CommandInv == TypeOK /\ HandledInv /\ SavedInv

\* What PRE_EXEC admits is not destructive.
LEMMA AdmittedHarmless ==
    ASSUME TypeOK, NEW code \in Code, Admitted(code),
           "dangerous_cmd_guard" \in Registered(hooks, "pre_exec")
    PROVE  "destructive" \notin code.text
<1> DEFINE payload == [text |-> code.text, path |-> "none"]
<1>1. payload \in Payload
  BY DEF Payload, PathKinds, Code
<1>2. hooks.pre_exec \in Seq(Handlers) /\ hooks["pre_exec"] = hooks.pre_exec
  BY RegistriesAssumption DEF TypeOK, Events
<1>3. PICK verdict \in Verdicts : Emit(hooks.pre_exec, payload, verdict).action # "deny"
  BY DEF Admitted, PreExec
<1>4. payload.text = code.text
  OBVIOUS
<1> HIDE DEF payload
<1>5. \A k \in DOMAIN hooks.pre_exec :
        hooks.pre_exec[k] = "dangerous_cmd_guard" => "destructive" \notin payload.text
  BY <1>1, <1>2, <1>3, EmitFacts
<1> QED BY <1>2, <1>4, <1>5 DEF Registered

\* What a command delivers is what the PRE_WRITE handlers leave of the code.
LEMMA DeliverFacts ==
    ASSUME TypeOK, NEW code, code.text \in Texts, code.attempt \in {1} \cup 0 .. MaxIterations,
           Deliver(code)
    PROVE  /\ outcome' \in Outcomes \ {"running"}
           /\ \/ output' \in {output, Torn}
              \/ /\ output' \in Output /\ output'.attempt = code.attempt
                 /\ output'.text \subseteq code.text
                 /\ code.text \ {"secret", "flagged"} \subseteq output'.text
                 /\ "secret" \notin output'.text
<1>1. CASE target = "none"
  BY <1>1 DEF Deliver, Outcomes
<1>2. CASE target # "none"
  <2>1. PICK verdict \in Verdicts : WriteOutput(code, verdict)
    BY <1>2 DEF Deliver
  <2> DEFINE payload == [text |-> code.text, path |-> target]
             handlers == DefaultRegistry.pre_write
             decision == Emit(handlers, payload, verdict)
  <2>2. payload \in Payload /\ payload.text = code.text
    BY DEF Payload, TypeOK
  <2>3. handlers \in Seq(Handlers) /\ 2 \in DOMAIN handlers /\ handlers[2] = "secret_scrub"
    BY DEF DefaultRegistry, Handlers
  <2>4. \/ outcome' \in {"blocked", "printed"} /\ output' = output
        \/ outcome' = "raised" /\ output' \in {output, Torn}
        \/ /\ outcome' = "saved" /\ decision.action # "deny"
           /\ output' = [attempt |-> code.attempt, text |-> decision.text, whole |-> TRUE]
    BY <2>1 DEF WriteOutput
  <2> HIDE DEF payload, handlers
  <2>5. /\ decision \in Decision /\ decision.text \subseteq payload.text
        /\ payload.text \ {"secret", "flagged"} \subseteq decision.text
        /\ decision.action # "deny" => "secret" \notin decision.text
    BY <2>2, <2>3, EmitFacts
  <2> HIDE DEF decision
  <2>6. CASE /\ outcome' = "saved" /\ decision.action # "deny"
             /\ output' = [attempt |-> code.attempt, text |-> decision.text, whole |-> TRUE]
    <3>1. decision.text \in Texts
      BY <2>5 DEF Decision
    <3>2. output' \in Output
      BY <2>6, <3>1 DEF Output
    <3> QED BY <2>2, <2>5, <2>6, <3>2 DEF Outcomes
  <2> QED BY <2>4, <2>6 DEF Outcomes
<1> QED BY <1>1, <1>2

LEMMA InitCommand == ASSUME Init PROVE CommandInv
<1>1. TypeOK
  BY EmptySeq, IterationsAssumption DEF Init, LoopInit, TypeOK, NoCode, NoError, NotRun, NoAnswer,
     Code, Error, LoopAnswer, Absent, Output, Outcomes, Texts, LoopTrace
<1> QED BY <1>1 DEF Init, LoopInit, CommandInv, HandledInv, SavedInv, SavedWasVerified, NoCode,
                    NotRun, NoAnswer, Absent

\* A branch that continues, with the newest code or with what was extracted.
LEMMA RetryCommand ==
    ASSUME CommandInv, Inv, Inv', pc \in {"asking", "executing"}, outcome = "running",
           NEW result \in Code, NEW kind \in {"llm_failed", "denied", "tool"}, NEW decision,
           Retry(result, kind, decision), UNCHANGED Settings,
           UNCHANGED <<mode, target, output, outcome>>,
           "secret_scrub" \in Registered(hooks, "post_llm") => "secret" \notin result.text,
           ran' \in [code : Code, said : {"nothing", "passed", "failed", "raised"}],
           "dangerous_cmd_guard" \in Registered(hooks, "pre_exec") =>
                "destructive" \notin ran'.code.text
    PROVE  CommandInv'
<1>1. /\ last_output' \in Code /\ last_error' \in Error
      /\ i' \in 0 .. max_iter /\ prompt' \in Error /\ answer' \in LoopAnswer
      /\ pc' \in {"asking", "done"}
  BY RetryType DEF CommandInv, Inv
<1>2. TypeOK'
  BY <1>1 DEF CommandInv, TypeOK, Inv, TracedInv, Settings
<1>3. last_output' = result /\ answer'.status # "completed"
  BY DEF Retry, NextAttempt, Inv, Counted, NoAnswer
<1>4. HandledInv'
  BY <1>1, <1>3 DEF CommandInv, HandledInv, Settings, Registered
<1>5. SavedInv'
  BY <1>3 DEF CommandInv, SavedInv, SavedWasVerified, Settings
<1> QED BY <1>2, <1>4, <1>5 DEF CommandInv

\* A branch that returns.
LEMMA ReturnCommand ==
    ASSUME CommandInv, Inv', outcome = "running",
           NEW status \in LoopStatus, NEW result \in Code, NEW verified \in BOOLEAN,
           NEW error \in Error, Return(status, result, verified, error),
           UNCHANGED Settings, UNCHANGED <<mode, target, output, outcome>>,
           status = "completed" => verified, last_error' = last_error, last_output' \in Code,
           "secret_scrub" \in Registered(hooks, "post_llm") => "secret" \notin last_output'.text,
           ran' \in [code : Code, said : {"nothing", "passed", "failed", "raised"}],
           "dangerous_cmd_guard" \in Registered(hooks, "pre_exec") =>
                "destructive" \notin ran'.code.text
    PROVE  CommandInv'
<1>1. /\ i' \in 0 .. max_iter /\ prompt' \in Error /\ answer' \in LoopAnswer
      /\ pc' = "done"
  BY ReturnType DEF CommandInv
<1>2. TypeOK'
  BY <1>1 DEF CommandInv, TypeOK, Inv, TracedInv, Settings
<1>3. answer'.status = "completed" => answer'.verified
  BY DEF Return
<1>4. HandledInv'
  BY <1>1 DEF CommandInv, HandledInv, Settings, Registered
<1>5. SavedInv'
  BY <1>3 DEF CommandInv, SavedInv, SavedWasVerified, Settings
<1> QED BY <1>2, <1>4, <1>5 DEF CommandInv

LEMMA AnsweredCommand ==
    ASSUME CommandInv, Inv, Inv', outcome = "running", UNCHANGED <<mode, target, output, outcome>>,
           NEW raw \in Texts, NEW verdict \in Verdicts,
           \/ PostLLMDenied(raw, verdict) \/ PreExecDenied(raw, verdict)
           \/ Execute(raw, verdict) \/ UnknownTool(raw, verdict) \/ Unverified(raw, verdict)
    PROVE  CommandInv'
<1>1. TypeOK /\ Counted /\ HandledInv
  BY DEF CommandInv, Inv
<1>2. /\ last_output \in Code
      /\ ran \in [code : Code, said : {"nothing", "passed", "failed", "raised"}]
      /\ "secret_scrub" \in Registered(hooks, "post_llm") => "secret" \notin last_output.text
      /\ "dangerous_cmd_guard" \in Registered(hooks, "pre_exec") => "destructive" \notin ran.code.text
  BY <1>1 DEF TypeOK, HandledInv
<1>3. ASSUME pc = "asking", Scrubbed(raw, verdict).action # "deny", NEW code \in Produced(raw, verdict)
      PROVE  /\ code \in Code
             /\ "secret_scrub" \in Registered(hooks, "post_llm") => "secret" \notin code.text
  BY <1>1, <1>3, ScrubbedType, ProducedType
<1>4. CASE PostLLMDenied(raw, verdict)
  BY <1>2, <1>4, RetryCommand DEF PostLLMDenied
<1>5. CASE PreExecDenied(raw, verdict)
  <2>1. PICK code \in Produced(raw, verdict) : Retry(code, "denied", "hook_denied")
    BY <1>5 DEF PreExecDenied
  <2>2. pc = "asking" /\ Scrubbed(raw, verdict).action # "deny" /\ UNCHANGED <<Settings, ran>>
    BY <1>5 DEF PreExecDenied
  <2> QED BY <1>2, <1>3, <2>1, <2>2, RetryCommand
<1>6. CASE Execute(raw, verdict)
  <2>1. PICK code \in Produced(raw, verdict) : Admitted(code) /\ last_output' = code
    BY <1>6 DEF Execute
  <2>2. /\ pc = "asking" /\ pc' = "executing" /\ Scrubbed(raw, verdict).action # "deny"
        /\ UNCHANGED <<Settings, i, prompt, last_error, traces, file, ran, answer>>
    BY <1>6 DEF Execute
  <2>3. /\ code \in Code
        /\ "secret_scrub" \in Registered(hooks, "post_llm") => "secret" \notin code.text
    BY <1>3, <2>2
  <2>4. TypeOK'
    BY <1>1, <2>1, <2>2, <2>3 DEF TypeOK, Settings
  <2>5. HandledInv'
    BY <1>1, <2>1, <2>2, <2>3, AdmittedHarmless DEF HandledInv, Settings, Registered
  <2>6. SavedInv'
    BY <2>2 DEF CommandInv, SavedInv, SavedWasVerified, Settings
  <2> QED BY <2>4, <2>5, <2>6 DEF CommandInv
<1>7. CASE UnknownTool(raw, verdict)
  <2>1. PICK code \in Produced(raw, verdict) : last_output' = code
    BY <1>7 DEF UnknownTool
  <2>2. /\ pc = "asking" /\ Scrubbed(raw, verdict).action # "deny"
        /\ Return("failed", NoCode, FALSE, [attempt |-> i, kind |-> "tool"])
        /\ UNCHANGED <<Settings, last_error, ran>>
    BY <1>7 DEF UnknownTool
  <2>3. NoCode \in Code /\ [attempt |-> i, kind |-> "tool"] \in Error
    BY <1>1, IterationsAssumption DEF TypeOK, NoCode, Code, Error, Texts
  <2> QED BY <1>2, <1>3, <2>1, <2>2, <2>3, ReturnCommand DEF LoopStatus
<1>8. CASE Unverified(raw, verdict)
  <2>1. PICK code \in Produced(raw, verdict) :
          last_output' = code /\ Return("completed", code, TRUE, NoError)
    BY <1>8 DEF Unverified
  <2>2. pc = "asking" /\ Scrubbed(raw, verdict).action # "deny"
        /\ UNCHANGED <<Settings, last_error, ran>>
    BY <1>8 DEF Unverified
  <2>3. NoError \in Error
    BY IterationsAssumption DEF NoError, Error
  <2> QED BY <1>2, <1>3, <2>1, <2>2, <2>3, ReturnCommand DEF LoopStatus
<1> QED BY <1>4, <1>5, <1>6, <1>7, <1>8

LEMMA LoopCommand ==
    ASSUME CommandInv, Inv, Inv', Loop
    PROVE  CommandInv'
<1>1. /\ LoopNext /\ outcome = "running" /\ UNCHANGED <<mode, target, output, outcome>>
      /\ TypeOK /\ Counted /\ HandledInv
  BY DEF Loop, CommandInv, Inv
<1>2. /\ last_output \in Code
      /\ ran \in [code : Code, said : {"nothing", "passed", "failed", "raised"}]
      /\ "secret_scrub" \in Registered(hooks, "post_llm") => "secret" \notin last_output.text
      /\ "dangerous_cmd_guard" \in Registered(hooks, "pre_exec") =>
           /\ "destructive" \notin ran.code.text
           /\ pc = "executing" => "destructive" \notin last_output.text
  BY <1>1 DEF TypeOK, HandledInv
<1>3. /\ NoCode \in Code /\ NoError \in Error /\ [attempt |-> i, kind |-> "tool"] \in Error
  BY <1>1, IterationsAssumption DEF TypeOK, NoCode, NoError, Code, Error, Texts
<1>4. ASSUME NEW said \in {"passed", "failed", "raised"}, pc = "executing",
             ran' = [code |-> last_output, said |-> said]
      PROVE  /\ ran' \in [code : Code, said : {"nothing", "passed", "failed", "raised"}]
             /\ "dangerous_cmd_guard" \in Registered(hooks, "pre_exec") =>
                  "destructive" \notin ran'.code.text
  BY <1>2, <1>4
<1>5. CASE Run
  <2>1. /\ pc = "idle" /\ NextAttempt(0, NoCode, NoError)
        /\ UNCHANGED <<Settings, last_output, last_error, traces, file, ran>>
    BY <1>5 DEF Run
  <2>2. i = 0 /\ 0 \in 0 .. max_iter /\ answer.status # "completed"
    BY <1>1, <2>1, IterationsAssumption DEF Counted, NoAnswer
  <2>3. /\ i' \in 0 .. max_iter /\ prompt' \in Error /\ answer' \in LoopAnswer
        /\ pc' \in {"asking", "done"}
    BY <1>1, <1>3, <2>1, <2>2, NextAttemptType
  <2>4. answer'.status # "completed"
    BY <2>1, <2>2 DEF NextAttempt
  <2>5. TypeOK'
    BY <1>1, <2>1, <2>3 DEF TypeOK, Settings
  <2>6. HandledInv'
    BY <1>1, <2>1, <2>3 DEF HandledInv, Settings, Registered
  <2>7. SavedInv'
    BY <1>1, <2>1, <2>4 DEF CommandInv, SavedInv, SavedWasVerified, Settings
  <2> QED BY <2>5, <2>6, <2>7 DEF CommandInv
<1>6. CASE ChatFailed
  BY <1>1, <1>2, <1>6, RetryCommand DEF ChatFailed
<1>7. CASE ModelAnswered
  BY <1>1, <1>7, AnsweredCommand DEF ModelAnswered
<1>8. CASE ToolPassed
  BY <1>1, <1>2, <1>3, <1>4, <1>8, ReturnCommand DEF ToolPassed, LoopStatus
<1>9. CASE ToolRaisedKeyError
  BY <1>1, <1>2, <1>3, <1>4, <1>9, ReturnCommand DEF ToolRaisedKeyError, LoopStatus
<1>10. ASSUME NEW said \in {"failed", "raised"}, ToolFailed(said) PROVE CommandInv'
  BY <1>1, <1>2, <1>4, <1>10, RetryCommand DEF ToolFailed
<1> QED BY <1>1, <1>5, <1>6, <1>7, <1>8, <1>9, <1>10 DEF LoopNext

LEMMA NextCommand == ASSUME CommandInv, Inv, Inv', [Next]_vars PROVE CommandInv'
<1>1. CASE Loop
  BY <1>1, LoopCommand
<1>2. CASE LoopReturned
  <2>1. /\ mode = "loop" /\ outcome = "running" /\ UNCHANGED <<loopVars, mode, target>>
        /\ \/ answer.status = "completed" /\ Deliver(answer.result)
           \/ outcome' = "error" /\ UNCHANGED output
    BY <1>2 DEF LoopReturned
  <2>2. TypeOK /\ answer.result \in Code /\ output.attempt = 0
    BY <2>1 DEF CommandInv, TypeOK, LoopAnswer, SavedInv
  <2>3. CASE answer.status = "completed" /\ Deliver(answer.result)
    <3>1. ran.said = "passed" /\ answer.result = ran.code
      BY <2>1, <2>3 DEF CommandInv, SavedInv, Inv, VerifiedInv, VerifiedIsPassed
    <3>2. answer.result.text \in Texts /\ answer.result.attempt \in {1} \cup 0 .. MaxIterations
      BY <2>2 DEF Code
    <3>3. /\ outcome' \in Outcomes \ {"running"}
          /\ \/ output' \in {output, Torn}
             \/ /\ output' \in Output /\ output'.attempt = ran.code.attempt
                /\ output'.text \subseteq ran.code.text
                /\ ran.code.text \ {"secret", "flagged"} \subseteq output'.text
                /\ "secret" \notin output'.text
      BY <2>2, <2>3, <3>1, <3>2, DeliverFacts
    <3>4. Torn \in Output /\ Torn.attempt = 0 /\ Torn.text = {}
      BY IterationsAssumption DEF Torn, Output, Texts
    <3>5. TypeOK'
      BY <2>1, <2>2, <3>3, <3>4 DEF TypeOK, loopVars
    <3>6. HandledInv'
      BY <2>1, <3>3, <3>4 DEF CommandInv, HandledInv, loopVars, Registered
    <3>7. SavedInv'
      BY <2>1, <2>2, <3>1, <3>3, <3>4 DEF CommandInv, SavedInv, SavedWasVerified, loopVars
    <3> QED BY <3>5, <3>6, <3>7 DEF CommandInv
  <2>4. CASE outcome' = "error" /\ UNCHANGED output
    BY <2>1, <2>4 DEF CommandInv, TypeOK, HandledInv, SavedInv, SavedWasVerified, loopVars, Registered,
                      Outcomes
  <2> QED BY <2>1, <2>3, <2>4
<1>3. CASE Skipped \/ PlainFailed
  BY <1>3 DEF Skipped, PlainFailed, CommandInv, TypeOK, HandledInv, SavedInv, SavedWasVerified,
              loopVars, Registered, Outcomes
<1>4. CASE PlainAnswered
  <2>1. PICK extracted \in Texts, verdict \in Verdicts :
          \/ outcome' = "error" /\ UNCHANGED output
          \/ Deliver([attempt |-> 1, text |-> Scrubbed(extracted, verdict).text])
    BY <1>4 DEF PlainAnswered
  <2>2. mode = "plain" /\ UNCHANGED <<loopVars, mode, target>> /\ TypeOK
    BY <1>4 DEF PlainAnswered, CommandInv
  <2>3. CASE Deliver([attempt |-> 1, text |-> Scrubbed(extracted, verdict).text])
    <3>1. Scrubbed(extracted, verdict).text \in Texts
      BY <2>2, ScrubbedType DEF Decision
    <3>2. PICK code : /\ code.text \in Texts /\ code.attempt \in {1} \cup 0 .. MaxIterations
                      /\ Deliver(code)
      <4> DEFINE code == [attempt |-> 1, text |-> Scrubbed(extracted, verdict).text]
      <4>1. /\ code.text \in Texts /\ code.attempt \in {1} \cup 0 .. MaxIterations
            /\ Deliver(code)
        BY <2>3, <3>1
      <4> HIDE DEF code
      <4> QED BY <4>1
    <3>3. outcome' \in Outcomes
          /\ \/ output' \in {output, Torn}
             \/ output' \in Output /\ "secret" \notin output'.text
      BY <2>2, <3>2, DeliverFacts
    <3>4. Torn \in Output /\ Torn.text = {}
      BY IterationsAssumption DEF Torn, Output, Texts
    <3> QED
      BY <2>2, <3>3, <3>4 DEF CommandInv, TypeOK, HandledInv, SavedInv, SavedWasVerified, loopVars,
                              Registered
  <2>4. CASE outcome' = "error" /\ UNCHANGED output
    BY <2>2, <2>4 DEF CommandInv, TypeOK, HandledInv, SavedInv, SavedWasVerified, loopVars, Registered,
                      Outcomes
  <2> QED BY <2>1, <2>3, <2>4
<1>5. CASE UNCHANGED vars
  BY <1>5 DEF vars, loopVars, CommandInv, TypeOK, HandledInv, SavedInv, SavedWasVerified, Registered
<1> QED BY <1>1, <1>2, <1>3, <1>4, <1>5 DEF Next, Command, Finished

-----------------------------------------------------------------------------
(* Theorems *)

LEMMA Invariant == Spec => []Inv
BY InitInv, NextInv, PTL DEF Spec

\* The prompt of a retry carries the error of the attempt right before it
\* (core/agent_loop.py:113,131,169,223).
THEOREM NewestFeedback == Spec => []FeedbackIsLatest
BY Invariant, PTL DEF Inv

\* With a tool, what run answers as verified is what the tool has passed in the
\* last attempt, and nothing that it passed is lost (core/agent_loop.py:148-222).
THEOREM VerifiedHasPassed == Spec => []VerifiedIsPassed
<1>1. Inv => VerifiedIsPassed
  BY DEF Inv, VerifiedInv, VerifiedIsPassed
<1> QED
  BY <1>1, Invariant, PTL

\* Every attempt that is over has one trace in the answer, and at most one in the
\* file (core/agent_loop.py:50).
THEOREM AttemptsTraced == Spec => []EveryAttemptTraced
<1>1. Inv => EveryAttemptTraced
  BY DEF Inv, TracedInv
<1> QED
  BY <1>1, Invariant, PTL

LEMMA CommandInvariant == Spec => [](Inv /\ CommandInv)
<1>1. Init => Inv /\ CommandInv
  BY InitInv, InitCommand
<1>2. Inv /\ CommandInv /\ [Next]_vars => (Inv /\ CommandInv)'
  BY NextInv, NextCommand
<1> QED BY <1>1, <1>2, PTL DEF Spec

\* The state of a command and of its loop keeps its types.
THEOREM TypeCorrect == Spec => []TypeOK
BY CommandInvariant, PTL DEF CommandInv

\* With any chain of handlers, a secret that secret_scrub is to take out is neither
\* returned nor saved, and what dangerous_cmd_guard refuses is not run
\* (core/hooks.py:98-118, core/safe_writer.py:51-80).
THEOREM HandlersHold == Spec => []HooksHold
<1>1. CommandInv => HooksHold
  BY DEF CommandInv, HandledInv, HooksHold
<1> QED BY <1>1, CommandInvariant, PTL

\* With --loop the output file holds the code that the tool has passed, less what
\* the handlers took out of it, or what was there before (cli/__init__.py:400).
THEOREM OnlyVerifiedSaved == Spec => []SavedWasVerified
<1>1. CommandInv => SavedWasVerified
  BY DEF CommandInv, SavedInv
<1> QED BY <1>1, CommandInvariant, PTL
=============================================================================
