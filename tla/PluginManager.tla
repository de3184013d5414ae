----------------------------- MODULE PluginManager -----------------------------
(***************************************************************************)
(* fusion_code_modelization/plugin: PluginManager over PluginRegistry, as  *)
(* the processes that share one registry file use it.  A process is a      *)
(* program, or a command of the command line, which has a registry and a   *)
(* manager of its own and does one operation.  Each process writes back    *)
(* the whole map that it loaded when it began.                             *)
(*                                                                         *)
(* Abstractions: of a manifest there is the status, which is all that      *)
(* operations look at and change besides version and date; listing and     *)
(* searching only read; the status "error" is never given.                 *)
(***************************************************************************)
EXTENDS StateFile, Functions

CONSTANTS Plugins, Processes

VARIABLES registry, \* registry.json
          process,  \* of each process: its registry and its manager
          outcome   \* what the last execute answered

pluginVars == <<registry, process, outcome>>

Status == {"registered", "installed", "loaded", "disabled"}

Registries == UNION {[known -> Status] : known \in SUBSET Plugins}

\* plugins and loaded are _plugins and _loaded.  Two fields are history:
\* handled, the plugins that the process has loaded, and current, whether
\* no other process has written the file since this one read or wrote it.
Process == [kind : {"program", "command"}, plugins : Registries,
            loaded : SUBSET Plugins, handled : SUBSET Plugins, current : BOOLEAN]

Gone == [kind |-> "gone"]

NoOutcome == "none"

PluginInit == /\ registry = Absent
              /\ process = [p \in Processes |-> Gone]
              /\ outcome = NoOutcome

Lives(p) == process[p] # Gone
Known(p) == DOMAIN process[p].plugins
IsProgram(p) == Lives(p) /\ process[p].kind = "program"

-----------------------------------------------------------------------------
(* Processes *)

Open(p, kind) ==
    /\ ~Lives(p)
    /\ process' = [process EXCEPT ![p] =
                      [kind |-> kind, plugins |-> Contents(registry),
                       loaded |-> {}, handled |-> {}, current |-> TRUE]]
    /\ outcome' = NoOutcome
    /\ UNCHANGED registry

\* Nothing is written at the end of a process.
Exit(p) == /\ Lives(p)
           /\ process' = [process EXCEPT ![p] = Gone]
           /\ outcome' = NoOutcome
           /\ UNCHANGED registry

\* What is left of a process after an operation.
After(p, changed) == IF process[p].kind = "command" THEN Gone ELSE changed

\* An operation that changes memory only.
Keep(p, changed) == /\ process' = [process EXCEPT ![p] = After(p, changed)]
                    /\ outcome' = NoOutcome
                    /\ UNCHANGED registry

\* The file is written, or the process dies between truncation and writing.
Written(p, changed, file, left) ==
    /\ registry' = file
    /\ process' = [q \in Processes |->
                     CASE q = p -> left
                       [] q # p /\ Lives(q) -> [process[q] EXCEPT !.current = FALSE]
                       [] OTHER -> Gone]
    /\ outcome' = NoOutcome

\* _save_registry, with the whole map.
Save(p, plugins) ==
    LET changed == [process[p] EXCEPT !.plugins = plugins, !.current = TRUE] IN
    \/ Written(p, changed, Whole(plugins), After(p, changed))
    \/ Written(p, changed, Torn, Gone)

WithStatus(p, plugin, status) ==
    [known \in Known(p) \cup {plugin} |-> IF known = plugin THEN status ELSE process[p].plugins[known]]

-----------------------------------------------------------------------------
(* Operations of the registry *)

\* A manifest that is registered again starts anew.
RegisterPlugin(p, plugin) ==
    /\ IsProgram(p)
    /\ Save(p, WithStatus(p, plugin, "registered"))

Unregister(p, plugin) ==
    /\ IsProgram(p) /\ plugin \in Known(p)
    /\ Save(p, Restrict(process[p].plugins, Known(p) \ {plugin}))

Install(p, plugin) ==
    /\ Lives(p) /\ plugin \in Known(p)
    /\ Save(p, WithStatus(p, plugin, "installed"))

\* update sets version and date only, and writes the file.
Update(p, plugin) ==
    /\ IsProgram(p) /\ plugin \in Known(p)
    /\ Save(p, process[p].plugins)

\* Mutant: the status is changed in memory only.
DisableUnsaved(p, plugin) ==
    /\ IsProgram(p) /\ plugin \in Known(p)
    /\ Keep(p, [process[p] EXCEPT !.plugins = WithStatus(p, plugin, "disabled")])

Disable(p, plugin) ==
    /\ IsProgram(p) /\ plugin \in Known(p)
    /\ Save(p, WithStatus(p, plugin, "disabled"))

-----------------------------------------------------------------------------
(* Operations of the manager, which do not write the file *)

Load(p, plugin) ==
    /\ Lives(p) /\ plugin \in Known(p)
    /\ process[p].plugins[plugin] # "disabled"
    /\ Keep(p, [process[p] EXCEPT !.plugins = WithStatus(p, plugin, "loaded"),
                                  !.loaded = @ \cup {plugin},
                                  !.handled = @ \cup {plugin}])

\* The status becomes "installed" whatever it was, "disabled" too.
Unload(p, plugin) ==
    /\ Lives(p) /\ plugin \in process[p].loaded
    /\ Keep(p, [process[p] EXCEPT
                  !.plugins = IF plugin \in Known(p) THEN WithStatus(p, plugin, "installed") ELSE @,
                  !.loaded = @ \ {plugin}])

\* execute, of an action that the manifest has.
Execute(p, plugin) ==
    /\ Lives(p)
    /\ outcome' = (IF plugin \in process[p].loaded \cap Known(p) THEN "completed" ELSE "failed")
    /\ process' = [process EXCEPT ![p] = After(p, @)]
    /\ UNCHANGED registry

Operation(p, plugin) ==
    \/ RegisterPlugin(p, plugin) \/ Unregister(p, plugin) \/ Install(p, plugin)
    \/ Update(p, plugin) \/ Disable(p, plugin)
    \/ Load(p, plugin) \/ Unload(p, plugin) \/ Execute(p, plugin)

PluginNext == \E p \in Processes :
                  \/ \E kind \in {"program", "command"} : Open(p, kind)
                  \/ Exit(p)
                  \/ \E plugin \in Plugins : Operation(p, plugin)

PluginSpec == PluginInit /\ [][PluginNext]_pluginVars

-----------------------------------------------------------------------------
(* Properties *)

\* The variables keep their types.
PluginTypeOK ==
    /\ registry \in Files(Registries)
    /\ process \in [Processes -> Process \cup {Gone}]
    /\ \A p \in Processes : Lives(p) => process[p].loaded \subseteq process[p].handled
    /\ outcome \in {NoOutcome, "completed", "failed"}

\* What a process was asked to record is on file: while nobody else writes
\* it, memory differs from the file only in plugins that the process itself
\* loaded or unloaded (manager.py:26,37 change the status without a save).
OnlyLoadingUnsaved ==
    \A p \in Processes :
        Lives(p) /\ process[p].current =>
            /\ Known(p) = DOMAIN Contents(registry)
            /\ \A plugin \in Known(p) :
                 \/ process[p].plugins[plugin] = Contents(registry)[plugin]
                 \/ plugin \in process[p].handled /\ process[p].plugins[plugin] \in {"loaded", "installed"}
=============================================================================
