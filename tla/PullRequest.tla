------------------------------ MODULE PullRequest ------------------------------
(***************************************************************************)
(* fusion_code_modelization/pipeline/integrator.py: create_pr, which runs  *)
(* git between hooks and writes files through SafeWriter, with the two     *)
(* logs that it fills: the audit log, by the audit_log handler, and the    *)
(* trace.  A step is a command of git or a write of a file; the process    *)
(* may die between any two.                                                *)
(*                                                                         *)
(* Abstractions: a change is its name, its path and what handlers see in   *)
(* its text; of git there is what is staged and how many commits there     *)
(* are.  generate_ci_config and the exports only read.                     *)
(***************************************************************************)
EXTENDS Hooks, AuditStore, TraceStore

CONSTANTS Registries,  \* what an integrator may be given as its hooks
          Names,       \* of files
          ChangeLists, \* the changes given to create_pr
          MaxCalls     \* bound on the calls (the code has none)

Change == [name : Names, path : PathKinds, delete : BOOLEAN, text : Texts]

ASSUME ChangesAssumption == ChangeLists \subseteq Seq(Change)
\* A path is what its file's name says.
ASSUME PathsAssumption ==
    \A one, other \in ChangeLists : \A m \in DOMAIN one, n \in DOMAIN other :
        one[m].name = other[n].name => one[m].path = other[n].path
ASSUME RegistriesAssumption == Registries \subseteq [Events -> Seq(Handlers)]
ASSUME CallsAssumption == MaxCalls \in Nat

VARIABLES hooks,   \* the registry of the integrator
          pc,      \* where create_pr is
          changes, \* its argument
          title,   \* its title and description, as handlers see them
          k,       \* the changes that are done
          tree,    \* the state of each file
          git,     \* what is staged, and how many commits there are
          records, \* _audit_logs of the integrator: a status for each
          answer,  \* of the last call
          base,    \* the commits when the call began
          late,    \* whether the call's commit raised
          calls

callVars == <<hooks, pc, changes, title, k, tree, git, records, answer, base, late, calls>>
vars == <<callVars, auditVars, traceVars>>

Init == /\ AuditInit /\ TraceInit
        /\ hooks \in Registries
        /\ pc = "idle"
        /\ changes = <<>> /\ title = {}
        /\ k = 0
        /\ tree = [name \in Names |-> "old"]
        /\ git = [staged |-> {}, commits |-> 0]
        /\ records = <<>>
        /\ answer = "none"
        /\ base = 0 /\ late = FALSE
        /\ calls = 0

-----------------------------------------------------------------------------
(* Ends *)

\* _log, and the answer.
Ends(status, record) == /\ pc' = "idle"
                        /\ answer' = status
                        /\ records' = Append(records, record)

\* except Exception
Failed == Ends("error", "failed")

-----------------------------------------------------------------------------
(* Commands *)

\* _emit_post_exec: the handler of the audit log, whose failure it hides.
PostExec == IF "audit_log" \in Registered(hooks, "post_exec")
            THEN LogOperation
            ELSE UNCHANGED auditVars

\* Mutant: the handlers are asked when the command has run.
RunChecksLate(text, effects, next) ==
    LET allowed(verdict) ==
            CheckExec(hooks.pre_exec, [text |-> text, path |-> "none"], verdict)
    IN  \E verdict \in Verdicts :
          /\ git' \in effects \cup {git}
          /\ IF allowed(verdict) THEN /\ pc' = next /\ UNCHANGED <<answer, records>>
                                 ELSE Failed
          /\ UNCHANGED late
          /\ PostExec

\* _run: what git returns is not looked at.  A command that raises (there is
\* no git, or it timed out) may have taken effect.
Run(text, effects, next) ==
    LET allowed(verdict) ==
            CheckExec(hooks.pre_exec, [text |-> text, path |-> "none"], verdict)
    IN  \E verdict \in Verdicts :
          \/ ~allowed(verdict) /\ Failed /\ UNCHANGED <<git, late, auditVars>>
          \/ /\ allowed(verdict)
             /\ git' \in effects \cup {git}
             /\ \/ PostExec /\ pc' = next /\ UNCHANGED <<answer, records, late>>
                \/ Failed /\ late' = (pc = "commit") /\ UNCHANGED auditVars

\* The head of the loop over the changes.
NextChange(n) == IF n < Len(changes) THEN "write" ELSE "commit"

Checkout == /\ pc = "checkout"
            /\ Run({}, {git}, NextChange(0))
            /\ UNCHANGED <<hooks, changes, title, k, tree, base, calls, traceVars>>

Add == /\ pc = "add"
       /\ Run({}, {[git EXCEPT !.staged = @ \cup {changes[k].name}]}, NextChange(k))
       /\ UNCHANGED <<hooks, changes, title, k, tree, base, calls, traceVars>>

\* Without anything staged git commits nothing.
Commit == /\ pc = "commit"
          /\ Run(title,
                 IF git.staged = {} THEN {}
                 ELSE {[git EXCEPT !.staged = {}, !.commits = @ + 1]},
                 "trace")
          /\ UNCHANGED <<hooks, changes, title, k, tree, base, calls, traceVars>>

-----------------------------------------------------------------------------
(* Changes *)

\* SafeWriter.write_text and unlink: the path first, then the handlers.
Admits(change, verdict) ==
    /\ change.path # "outside"
    /\ Emit(hooks.pre_write,
            [text |-> IF change.delete THEN {} ELSE change.text, path |-> change.path],
            verdict).action # "deny"

\* What a change leaves of its file.
Left(change) == IF change.delete THEN "absent" ELSE "written"

Write == /\ pc = "write"
         /\ LET change == changes[k + 1]
                file == tree[change.name]
            IN  \E verdict \in Verdicts :
                  IF ~Admits(change, verdict)
                  THEN Ends("error", "denied") /\ UNCHANGED <<tree, k>>
                  ELSE \/ /\ tree' = [tree EXCEPT ![change.name] = Left(change)]
                          /\ k' = k + 1
                          /\ pc' = "add"
                          /\ UNCHANGED <<answer, records>>
                       \/ /\ tree' \in {[tree EXCEPT ![change.name] = left] :
                                          left \in {file, "torn"}}
                          /\ change.delete => tree' = tree
                          /\ Failed
                          /\ UNCHANGED k
         /\ UNCHANGED <<hooks, changes, title, git, base, late, calls, auditVars, traceVars>>

-----------------------------------------------------------------------------
(* Calls *)

CreatePR(list, text) ==
    /\ pc = "idle"
    /\ calls < MaxCalls /\ RoomForNode /\ clock + Len(list) + 2 <= MaxEntries
    /\ pc' = "checkout"
    /\ changes' = list /\ title' = text
    /\ k' = 0
    /\ base' = git.commits /\ late' = FALSE
    /\ answer' = "none"
    /\ calls' = calls + 1
    /\ UNCHANGED <<hooks, tree, git, records, auditVars, traceVars>>

\* trace_artifact swallows what goes wrong, and the call has succeeded.
Trace == /\ pc = "trace"
         /\ AddNode \/ UNCHANGED traceVars
         /\ Ends("created", "success")
         /\ UNCHANGED <<hooks, changes, title, k, tree, git, base, late, calls, auditVars>>

\* link_artifacts
Link == /\ pc = "idle"
        /\ RoomForEdge
        /\ AddEdge
        /\ UNCHANGED <<callVars, auditVars>>

\* The audit command of the command line, in a process of its own.
AuditCommand == /\ \/ pc = "idle" /\ RoomForEntry /\ LogOperation
                   \/ \E from \in 2 .. clock + 1 : Cleanup(from)
                /\ UNCHANGED <<callVars, traceVars>>

\* The process dies; the next one makes an integrator of its own.
Die == /\ pc # "idle" \/ tracker.open \/ records # <<>>
       /\ pc' = "idle"
       /\ tracker' = NoTracker
       /\ records' = <<>>
       /\ answer' = "none"
       /\ UNCHANGED <<hooks, changes, title, k, tree, git, base, late, calls, auditVars,
                      trace, made, losses>>

Next == \/ \E list \in ChangeLists, text \in {{}, {"destructive"}} : CreatePR(list, text)
        \/ Checkout \/ Write \/ Add \/ Commit \/ Trace
        \/ Link
        \/ AuditCommand
        \/ Die

Spec == Init /\ [][Next]_vars

-----------------------------------------------------------------------------
(* Properties *)

\* Types, and the files that the two rotations may leave.
TypeOK == /\ hooks \in Registries
          /\ pc \in {"idle", "checkout", "write", "add", "commit", "trace"}
          /\ changes \in ChangeLists \cup {<<>>} /\ title \subseteq Marks
          /\ k \in 0 .. Len(changes)
          /\ tree \in [Names -> {"old", "torn", "written", "absent"}]
          /\ git.staged \subseteq Names /\ git.commits \in 0 .. calls
          /\ records \in Seq({"success", "failed", "denied"})
          /\ answer \in {"none", "created", "error"}
          /\ base \in 0 .. calls /\ late \in BOOLEAN /\ calls \in 0 .. MaxCalls
          /\ DOMAIN audit \subseteq 0 .. MaxFiles
          /\ logged \subseteq 1 .. clock /\ cutoff \in 1 .. clock + 1
          /\ stops + cleanups \in 0 .. MaxStops
          /\ \A kind \in Kinds : DOMAIN trace[kind] \subseteq 0 .. MaxRotations
          /\ \A kind \in Kinds : tracker[kind] \subseteq 1 .. made[kind]

\* An operation that stopped costs a file of what is kept, and a write that
\* was cut short takes the next entry of the same file along.
AuditRetains ==
    LET fresh == {e \in logged : e >= cutoff /\ clock - e < (MaxFiles - stops) * FileLines}
    IN  Cardinality(fresh \ EntriesIn(audit)) <= stops

\* Here the last file and the one before it go at once.
TraceRetains ==
    \A kind \in Kinds :
        LET fresh == {e \in 1 .. made[kind] :
                        made[kind] - e <= (MaxRotations - 1 - losses) * TraceLines}
        IN  Cardinality(fresh \ EntriesIn(trace[kind])) <= 2 * losses

\* Rotation drops the oldest entries only: what was logged, and is not below
\* the limit of a cleanup, is in some file until as many entries have come
\* after it as the rotated files hold (AuditStore._rotate_if_needed, append
\* and _rewrite, TraceStore._maybe_rotate).
Retention == AuditRetains /\ TraceRetains

\* A cleanup that came to its end leaves each entry once and none that is
\* older than its limit; one that stopped leaves the kept entries twice, in
\* the new file and in the old ones, and nothing ever tells the two apart
\* (AuditStore.cleanup, read_all).
CleanupExact ==
    LET read == ReadAll
        copies(e) == Cardinality({n \in DOMAIN read : read[n] = e}) IN
    /\ \A e \in EntriesIn(audit) : copies(e) <= 2 ^ cleanups
    /\ cleanups = 0 => \A e \in EntriesIn(audit) : e >= cutoff

\* What create_pr answers: an error leaves nothing committed, unless git was
\* cut off in the commit itself; after "created" every file is as the last
\* change of it says; and the last record of the integrator agrees.  A path
\* that path_guard denies is never touched, whatever the other changes of the
\* list did (PipelineIntegrator.create_pr, SafeWriter.write_text and unlink).
AnswerTells ==
    /\ answer = "error" => (git.commits = base \/ late) /\ Last(records) # "success"
    /\ answer = "created" =>
         /\ \A n \in DOMAIN changes :
              \/ tree[changes[n].name] = Left(changes[n])
              \/ \E m \in DOMAIN changes : m > n /\ changes[m].name = changes[n].name
         /\ Last(records) = "success"
    /\ "path_guard" \in Registered(hooks, "pre_write") =>
         \A list \in ChangeLists : \A n \in DOMAIN list :
              list[n].path = "system" => tree[list[n].name] = "old"
=============================================================================
