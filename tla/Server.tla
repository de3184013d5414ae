-------------------------------- MODULE Server --------------------------------
(***************************************************************************)
(* fusion_code_modelization/server/app.py: what create_app keeps of its    *)
(* own.  That is the rate limiter behind the host guard and before the     *)
(* authentication, and the table of workflow results, which is restored    *)
(* when the server starts and written when it stops.                       *)
(*                                                                         *)
(* Abstractions: a request that a session answers is answered at once      *)
(* (SessionEngine.tla says how), and so is a public one; a run of a        *)
(* workflow ends when it will (WorkflowExecutor.tla).  A list of times is  *)
(* a set of numbered times.  The clock does not go back.  Left out:        *)
(* /metrics, the CORS headers and /ws/chat, which passes neither guard nor *)
(* limiter.                                                                *)
(***************************************************************************)
EXTENDS StateFile, FiniteSets, Integers

CONSTANTS Clients, Plans,
          Limit,   \* max_requests
          Window,  \* window_seconds
          MaxTime, \* bounds on the clock and on the runs at once (the code has none)
          MaxRuns

ASSUME ServerAssumption == Limit \in Nat /\ Window \in Nat /\ MaxTime \in Nat /\ MaxRuns \in Nat

VARIABLES now,
          hits,    \* _hits of the limiter
          serving, \* "down", "up" or, once told to stop, "stopping"
          running, \* how many workflows run
          results, \* the plans in _workflow_results
          file,    \* workflow_results.json
          answer,  \* the last answer, and to whom
          spent,   \* history: of each client, when it passed the limiter
          told     \* history: the plans whose result should still be found

vars == <<now, hits, serving, running, results, file, answer, spent, told>>

NoAnswer == [code |-> 0]

\* A results file that was cut inside a character, which is no text: it is
\* written with ensure_ascii=False.
Garbled == [form |-> "garbled", data |-> <<>>]

Hit == [at : Nat, n : Nat]
NoHits == [c \in Clients |-> {}]

Init == /\ now = 0
        /\ hits = NoHits /\ spent = NoHits
        /\ serving = "down"
        /\ running = 0
        /\ results = {} /\ told = {}
        /\ file = Absent
        /\ answer = NoAnswer

-----------------------------------------------------------------------------
(* The middleware *)

Answer(client, code) == answer' = [client |-> client, code |-> code]

\* The hits of a client that still count.
Recent(client) == {hit \in hits[client] : hit.at > now - Window}

Allowed(client) == Cardinality(Recent(client)) < Limit

NewHit(client) == [at |-> now, n |-> Cardinality(Recent(client)) + 1]

\* Mutant: a request that is refused counts as well.
HitsAlways(client) == [hits EXCEPT ![client] = Recent(client) \cup {NewHit(client)}]

\* _hits after a call of allow: only a request that is let through counts.
Hits(client) ==
    [hits EXCEPT ![client] = IF Allowed(client) THEN Recent(client) \cup {NewHit(client)}
                                                ELSE Recent(client)]

\* host_guard runs first: a body too large or a host that is not allowed.
Misdirected(client) == /\ serving = "up"
                       /\ Answer(client, 421)
                       /\ UNCHANGED <<now, hits, serving, running, results, file, spent, told>>

TooMany(client) == /\ serving = "up"
                   /\ ~Allowed(client)
                   /\ hits' = Hits(client)
                   /\ Answer(client, 429)
                   /\ UNCHANGED <<now, serving, running, results, file, spent, told>>

Pass(client) == /\ serving = "up"
                /\ Allowed(client)
                /\ hits' = Hits(client)
                /\ spent' = [spent EXCEPT ![client] = @ \cup {NewHit(client)}]
                /\ UNCHANGED <<now, serving, results, file, told>>

\* The token is asked for behind the limiter, and not on public paths.
Unauthorized(client) == Pass(client) /\ Answer(client, 401) /\ UNCHANGED running

-----------------------------------------------------------------------------
(* The handlers *)

\* A public path, or one that the session engine answers.
Served(client) == Pass(client) /\ Answer(client, 200) /\ UNCHANGED running

GetWorkflow(client, plan) == /\ Pass(client)
                             /\ Answer(client, IF plan \in results THEN 200 ELSE 404)
                             /\ UNCHANGED running

\* run_workflow until the executor has the plan.
RunWorkflow(client) == /\ running < MaxRuns
                       /\ Pass(client)
                       /\ running' = running + 1
                       /\ answer' = NoAnswer

\* Mutant: only the result of a plan that completed is kept.
WorkflowEndedCompleted(plan, status) ==
    /\ running > 0 /\ plan \notin results \cup told
    /\ running' = running - 1
    /\ results' = (IF status = "completed" THEN results \cup {plan} ELSE results)
    /\ told' = told \cup {plan}
    /\ answer' = NoAnswer
    /\ UNCHANGED <<now, hits, serving, file, spent>>

\* The plan, which has an identifier of its own, is kept and answered,
\* whatever its status.
WorkflowEnded(plan, status) ==
    /\ running > 0 /\ plan \notin results \cup told
    /\ running' = running - 1
    /\ results' = results \cup {plan}
    /\ told' = told \cup {plan}
    /\ answer' = NoAnswer
    /\ UNCHANGED <<now, hits, serving, file, spent>>

\* The executor raises, as asyncio.Semaphore does on a negative max_parallel.
WorkflowRaised ==
    /\ running > 0
    /\ running' = running - 1
    /\ answer' = NoAnswer
    /\ UNCHANGED <<now, hits, serving, results, file, spent, told>>

-----------------------------------------------------------------------------
(* The life of the server *)

Restored(content) == IF content.form = "whole" THEN content.data ELSE {}

\* lifespan before its yield, in a new process with a new limiter.
Start == /\ serving = "down"
         /\ file # Garbled
         /\ serving' = "up"
         /\ results' = Restored(file)
         /\ answer' = NoAnswer
         /\ UNCHANGED <<now, hits, running, file, spent, told>>

\* UnicodeDecodeError is neither of the errors that are caught: the server
\* does not come up.
StartFails == /\ serving = "down"
              /\ file = Garbled
              /\ answer' = NoAnswer
              /\ UNCHANGED <<now, hits, serving, running, results, file, spent, told>>

\* uvicorn takes no new requests, and lets those that it has end.
Stop == /\ serving = "up"
        /\ serving' = "stopping"
        /\ answer' = NoAnswer
        /\ UNCHANGED <<now, hits, running, results, file, spent, told>>

Ends == /\ serving' = "down"
        /\ running' = 0
        /\ results' = {}
        /\ hits' = NoHits /\ spent' = NoHits
        /\ answer' = NoAnswer
        /\ UNCHANGED now

\* lifespan after its yield: mkdir and write_text, any OSError of which is
\* only logged.  A result is then found again as far as the file holds it.
Stopped == /\ serving = "stopping" /\ running = 0
           /\ Ends
           /\ \/ file' = Whole(results) /\ UNCHANGED told
              \/ file' \in {file, Torn, Garbled} /\ told' = told \cap Restored(file')

Kill == /\ serving # "down"
        /\ Ends
        /\ UNCHANGED file
        /\ told' = told \cap Restored(file)

Tick == /\ now < MaxTime
        /\ now' = now + 1
        /\ answer' = NoAnswer
        /\ UNCHANGED <<hits, serving, running, results, file, spent, told>>

Next == \/ \E client \in Clients : \/ Misdirected(client) \/ TooMany(client)
                                   \/ Unauthorized(client) \/ Served(client)
                                   \/ RunWorkflow(client)
                                   \/ \E plan \in Plans : GetWorkflow(client, plan)
        \/ \E plan \in Plans, status \in {"completed", "partial", "failed"} : WorkflowEnded(plan, status)
        \/ WorkflowRaised
        \/ Start \/ StartFails \/ Stop \/ Stopped \/ Kill \/ Tick

Spec == Init /\ [][Next]_vars

-----------------------------------------------------------------------------
(* Properties *)

\* The variables keep their types.
TypeOK == /\ now \in 0 .. MaxTime
          /\ hits \in [Clients -> SUBSET Hit] /\ spent \in [Clients -> SUBSET Hit]
          /\ serving \in {"down", "up", "stopping"}
          /\ running \in 0 .. MaxRuns
          /\ results \subseteq Plans /\ told \subseteq Plans
          /\ file \in Files(SUBSET Plans) \cup {Garbled}

\* The requests of a client that were let through in the window that ends now.
InWindow(client) == {hit \in spent[client] : hit.at > now - Window}
Passed(client) == Cardinality(InWindow(client))

\* A client is let through at most max_requests times in any window, refused
\* requests not counted, and refused only when it has used the window up
\* (app.py:79,173,188).
WindowExact ==
    /\ \A client \in Clients : Passed(client) <= Limit
    /\ answer.code = 429 => Passed(answer.client) = Limit

\* A result that a client was told is found while the server is up, and
\* after a stop and a start unless the server was killed or its save failed
\* since (app.py:121,334).
ResultsKept == serving # "down" => told \subseteq results
=============================================================================
