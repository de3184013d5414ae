---------------------------- MODULE StateFilesProofs ----------------------------
(* Theorems about the components that keep what they know in a file of their   *)
(* own, for all values of their constants: the plugins, the server, the        *)
(* offline cache and its packages, the load balancer, and the searches through *)
(* the trace.                                                                  *)
EXTENDS PluginManager, OfflinePackage, LoadBalancer, TraceSearch, Server, FiniteSetTheorems,
        SequenceTheorems, WellFoundedInduction, TLAPS

-----------------------------------------------------------------------------
(* The plugins: the inductive invariant is the types, and for each process *)
(* what it knows against what the file holds.                              *)

\* What is known of the memory of a process that wrote or read the file last.
Agrees(memory, content) ==
    /\ DOMAIN memory.plugins = DOMAIN content
    /\ \A plugin \in DOMAIN content :
         \/ memory.plugins[plugin] = content[plugin]
         \/ plugin \in memory.handled /\ memory.plugins[plugin] \in {"loaded", "installed"}

\* A process as it may be beside a file with this content.
Sound(memory, content) ==
    memory = Gone \/ /\ memory \in Process
                     /\ memory.loaded \subseteq memory.handled
                     /\ memory.current => Agrees(memory, content)

PluginInv == /\ registry \in Files(Registries)
        /\ outcome \in {NoOutcome, "completed", "failed"}
        /\ DOMAIN process = Processes /\ process = [p \in Processes |-> process[p]]
        /\ \A p \in Processes : Sound(process[p], Contents(registry))

-----------------------------------------------------------------------------
(* The plugins: registries and files *)

LEMMA EmptyRegistry == <<>> \in Registries
<1>1. <<>> \in [{} -> Status]
  OBVIOUS
<1> QED
  BY <1>1 DEF Registries

\* Whatever form the file has, what is read from it is a registry.
LEMMA ContentsType == ASSUME NEW json \in Files(Registries) PROVE Contents(json) \in Registries
BY EmptyRegistry DEF Files, Contents, Absent, Torn, Whole

\* The registry of a plugin that is given a status.
LEMMA WithStatusType ==
    ASSUME NEW p, process[p].plugins \in Registries, NEW plugin \in Plugins, NEW status \in Status
    PROVE  WithStatus(p, plugin, status) \in Registries
<1>1. PICK old \in SUBSET Plugins : process[p].plugins \in [old -> Status]
  BY DEF Registries
<1>2. WithStatus(p, plugin, status) \in [old \cup {plugin} -> Status]
  BY <1>1 DEF WithStatus, Known
<1> QED
  BY <1>2 DEF Registries

LEMMA RestrictType ==
    ASSUME NEW known \in Registries, NEW left \in SUBSET DOMAIN known
    PROVE  Restrict(known, left) \in Registries
<1>1. PICK old \in SUBSET Plugins : known \in [old -> Status]
  BY DEF Registries
<1>2. Restrict(known, left) \in [left -> Status]
  BY <1>1 DEF Restrict
<1> QED
  BY <1>1, <1>2 DEF Registries

-----------------------------------------------------------------------------
(* The plugins: the two kinds of steps *)

\* One process changes, or goes, and the file stays.
LEMMA OneChanges ==
    ASSUME PluginInv, NEW p \in Processes, NEW new,
           process' = [process EXCEPT ![p] = new],
           Sound(new, Contents(registry)),
           UNCHANGED registry,
           outcome' \in {NoOutcome, "completed", "failed"}
    PROVE  PluginInv'
<1>1. DOMAIN process' = Processes /\ process' = [q \in Processes |-> process'[q]]
  BY DEF PluginInv
<1>2. \A q \in Processes : Sound(process'[q], Contents(registry))
  BY DEF PluginInv
<1> QED
  BY <1>1, <1>2 DEF PluginInv, Contents

\* What is left of a process after an operation is as sound as what it leaves.
LEMMA AfterSound ==
    ASSUME NEW p, NEW changed, NEW content, Sound(changed, content)
    PROVE  Sound(After(p, changed), content)
BY DEF After, Sound

\* An operation in memory only.
LEMMA KeepSound ==
    ASSUME PluginInv, NEW p \in Processes, NEW changed, Keep(p, changed),
           Sound(changed, Contents(registry))
    PROVE  PluginInv'
BY AfterSound, OneChanges DEF Keep

\* A save makes the memory of the process and the file the same, and every
\* other process out of date.
LEMMA SaveSound ==
    ASSUME PluginInv, NEW p \in Processes, Lives(p), NEW plugins \in Registries, Save(p, plugins)
    PROVE  PluginInv'
<1> DEFINE changed == [process[p] EXCEPT !.plugins = plugins, !.current = TRUE]
<1>1. process[p] \in Process /\ process[p].loaded \subseteq process[p].handled
  BY DEF PluginInv, Sound, Lives
<1>2. changed \in Process /\ changed.plugins = plugins /\ changed.loaded \subseteq changed.handled
  BY <1>1 DEF Process
<1>3. Sound(changed, plugins)
  BY <1>2 DEF Sound, Agrees
<1>4. PICK json \in {Whole(plugins), Torn}, left \in {After(p, changed), Gone} :
        /\ Written(p, changed, json, left)
        /\ Sound(left, Contents(json))
  <2>1. Contents(Whole(plugins)) = plugins
    BY DEF Contents, Whole
  <2>2. Sound(After(p, changed), plugins) /\ Sound(Gone, Contents(Torn))
    BY <1>3, AfterSound DEF Sound
  <2> QED
    BY <2>1, <2>2 DEF Save
<1> HIDE DEF changed
<1>5. registry' = json /\ json \in Files(Registries)
  BY <1>4 DEF Written, Files
<1>6. \A q \in Processes : Sound(process'[q], Contents(json))
  <2> SUFFICES ASSUME NEW q \in Processes PROVE Sound(process'[q], Contents(json))
    OBVIOUS
  <2>1. CASE q = p
    BY <1>4, <2>1 DEF Written
  <2>2. CASE q # p /\ Lives(q)
    <3>1. process'[q] = [process[q] EXCEPT !.current = FALSE]
      BY <1>4, <2>2 DEF Written
    <3>2. process[q] \in Process /\ process[q].loaded \subseteq process[q].handled
      BY <2>2 DEF PluginInv, Sound, Lives
    <3> QED
      BY <3>1, <3>2 DEF Sound, Process
  <2>3. CASE q # p /\ ~Lives(q)
    BY <1>4, <2>3 DEF Written, Sound
  <2> QED
    BY <2>1, <2>2, <2>3
<1>7. /\ DOMAIN process' = Processes
      /\ process' = [q \in Processes |-> process'[q]]
      /\ outcome' = NoOutcome
  BY <1>4 DEF Written
<1> QED
  BY <1>5, <1>6, <1>7 DEF PluginInv, Contents

-----------------------------------------------------------------------------
(* The plugins: the operations *)

\* A process that lives has a registry.
LEMMA LivingType ==
    ASSUME PluginInv, NEW p \in Processes, Lives(p)
    PROVE  /\ process[p] \in Process
           /\ process[p].plugins \in Registries
           /\ process[p].loaded \subseteq process[p].handled
           /\ process[p].current => Agrees(process[p], Contents(registry))
BY DEF PluginInv, Sound, Lives, Process

LEMMA StatusSaved ==
    ASSUME PluginInv, NEW p \in Processes, Lives(p), NEW plugin \in Plugins, NEW status \in Status,
           Save(p, WithStatus(p, plugin, status))
    PROVE  PluginInv'
BY LivingType, WithStatusType, SaveSound

\* The memory of a process in which one plugin that it has loaded changes.
LEMMA HandledChanges ==
    ASSUME PluginInv, NEW p \in Processes, Lives(p), NEW plugin \in Plugins, plugin \in Known(p),
           NEW status \in {"loaded", "installed"},
           NEW loaded \in SUBSET Plugins, NEW handled \in SUBSET Plugins,
           process[p].handled \subseteq handled, loaded \subseteq handled, plugin \in handled,
           NEW changed,
           changed = [process[p] EXCEPT !.plugins = WithStatus(p, plugin, status),
                                        !.loaded = loaded, !.handled = handled]
    PROVE  Sound(changed, Contents(registry))
<1> DEFINE plugins == WithStatus(p, plugin, status)
<1>1. status \in Status
  BY DEF Status
<1>2. /\ plugins \in Registries
      /\ DOMAIN plugins = Known(p)
      /\ \A other \in Known(p) \ {plugin} : plugins[other] = process[p].plugins[other]
      /\ plugins[plugin] = status
  <2>1. process[p].plugins \in Registries
    BY LivingType
  <2>2. plugins \in Registries
    BY <1>1, <2>1, WithStatusType
  <2>3. plugins = [known \in Known(p) |-> IF known = plugin THEN status ELSE process[p].plugins[known]]
    BY DEF WithStatus
  <2> HIDE DEF plugins
  <2> QED
    BY <2>2, <2>3
<1> HIDE DEF plugins
<1>3. /\ changed \in Process
      /\ changed.plugins = plugins /\ changed.handled = handled /\ changed.loaded = loaded
      /\ changed.current = process[p].current
  <2>1. changed = [process[p] EXCEPT !.plugins = plugins, !.loaded = loaded, !.handled = handled]
    BY DEF plugins
  <2>2. process[p] \in Process
    BY LivingType
  <2> QED
    BY <1>2, <2>1, <2>2 DEF Process
<1>4. process[p].current => Agrees(changed, Contents(registry))
  BY <1>2, <1>3, LivingType DEF Agrees, Known
<1> QED
  BY <1>3, <1>4 DEF Sound

\* Sound is what the types and OnlyLoadingUnsaved say of one process.
LEMMA PluginInvSays == ASSUME PluginInv PROVE PluginTypeOK /\ OnlyLoadingUnsaved
<1>1. process \in [Processes -> Process \cup {Gone}]
  BY DEF PluginInv, Sound
<1>2. \A p \in Processes : Lives(p) => process[p].loaded \subseteq process[p].handled
  BY LivingType
<1>3. OnlyLoadingUnsaved
  BY LivingType DEF OnlyLoadingUnsaved, Agrees, Known
<1> QED
  BY <1>1, <1>2, <1>3 DEF PluginInv, PluginTypeOK

LEMMA InitPlugin == ASSUME PluginInit PROVE PluginInv
BY DEF PluginInit, PluginInv, Sound, Files

LEMMA NextPlugin == ASSUME PluginInv, [PluginNext]_pluginVars PROVE PluginInv'
<1>1. ASSUME NEW p \in Processes, NEW kind \in {"program", "command"}, Open(p, kind) PROVE PluginInv'
  <2> DEFINE new == [kind |-> kind, plugins |-> Contents(registry),
                     loaded |-> {}, handled |-> {}, current |-> TRUE]
  <2>1. Contents(registry) \in Registries
    BY ContentsType DEF PluginInv
  <2>2. new \in Process
    BY <2>1 DEF Process
  <2>3. Sound(new, Contents(registry))
    BY <2>2 DEF Sound, Agrees
  <2> QED
    BY <1>1, <2>3, OneChanges DEF Open
<1>2. ASSUME NEW p \in Processes, Exit(p) PROVE PluginInv'
  BY <1>2, OneChanges DEF Exit, Sound
<1>3. ASSUME NEW p \in Processes, NEW plugin \in Plugins, Operation(p, plugin) PROVE PluginInv'
  <2>1. CASE RegisterPlugin(p, plugin)
    BY <2>1, StatusSaved DEF RegisterPlugin, IsProgram, Status
  <2>2. CASE Unregister(p, plugin)
    <3>1. Lives(p) /\ Save(p, Restrict(process[p].plugins, Known(p) \ {plugin}))
      BY <2>2 DEF Unregister, IsProgram
    <3>2. Restrict(process[p].plugins, Known(p) \ {plugin}) \in Registries
      BY <3>1, LivingType, RestrictType DEF Known
    <3> QED
      BY <3>1, <3>2, SaveSound
  <2>3. CASE Install(p, plugin)
    BY <2>3, StatusSaved DEF Install, Status
  <2>4. CASE Update(p, plugin)
    BY <2>4, LivingType, SaveSound DEF Update, IsProgram
  <2>5. CASE Disable(p, plugin)
    BY <2>5, StatusSaved DEF Disable, IsProgram, Status
  <2>6. CASE Load(p, plugin)
    <3> DEFINE changed == [process[p] EXCEPT !.plugins = WithStatus(p, plugin, "loaded"),
                                             !.loaded = @ \cup {plugin},
                                             !.handled = @ \cup {plugin}]
    <3>1. Lives(p) /\ plugin \in Known(p) /\ Keep(p, changed)
      BY <2>6 DEF Load
    <3>2. process[p] \in Process /\ process[p].loaded \subseteq process[p].handled
      BY <3>1, LivingType
    <3>3. changed = [process[p] EXCEPT !.plugins = WithStatus(p, plugin, "loaded"),
                                       !.loaded = process[p].loaded \cup {plugin},
                                       !.handled = process[p].handled \cup {plugin}]
      OBVIOUS
    <3>4. process[p].handled \in SUBSET Plugins /\ process[p].loaded \in SUBSET Plugins
      BY <3>2 DEF Process
    <3> HIDE DEF changed
    <3>5. Sound(changed, Contents(registry))
      BY <3>1, <3>2, <3>3, <3>4, HandledChanges
    <3> QED
      BY <3>1, <3>5, KeepSound
  <2>7. CASE Unload(p, plugin)
    <3> DEFINE changed == [process[p] EXCEPT
                  !.plugins = IF plugin \in Known(p) THEN WithStatus(p, plugin, "installed") ELSE @,
                  !.loaded = @ \ {plugin}]
    <3>1. Lives(p) /\ plugin \in process[p].loaded /\ Keep(p, changed)
      BY <2>7 DEF Unload
    <3>2. process[p] \in Process /\ process[p].loaded \subseteq process[p].handled
      BY <3>1, LivingType
    <3>3. CASE plugin \in Known(p)
      <4>1. changed = [process[p] EXCEPT !.plugins = WithStatus(p, plugin, "installed"),
                                         !.loaded = process[p].loaded \ {plugin},
                                         !.handled = process[p].handled]
        BY <3>2, <3>3 DEF Process
      <4>2. process[p].handled \in SUBSET Plugins /\ process[p].loaded \ {plugin} \in SUBSET Plugins
        BY <3>2 DEF Process
      <4>3. plugin \in process[p].handled
        BY <3>1, <3>2
      <4> HIDE DEF changed
      <4>4. Sound(changed, Contents(registry))
        BY <3>1, <3>2, <3>3, <4>1, <4>2, <4>3, HandledChanges
      <4> QED
        BY <3>1, <4>4, KeepSound
    <3>4. CASE plugin \notin Known(p)
      <4>1. changed \in Process /\ changed.loaded \subseteq changed.handled
        BY <3>2, <3>4 DEF Process
      <4>2. /\ changed.plugins = process[p].plugins /\ changed.handled = process[p].handled
            /\ changed.current = process[p].current
        BY <3>2, <3>4 DEF Process
      <4> HIDE DEF changed
      <4>3. Sound(changed, Contents(registry))
        BY <3>1, <4>1, <4>2, LivingType DEF Sound, Agrees
      <4> QED
        BY <3>1, <4>3, KeepSound
    <3> QED
      BY <3>3, <3>4
  <2>8. CASE Execute(p, plugin)
    <3>1. Sound(After(p, process[p]), Contents(registry))
      BY AfterSound DEF PluginInv
    <3>2. process' = [process EXCEPT ![p] = After(p, process[p])]
      BY <2>8 DEF Execute
    <3> QED
      BY <2>8, <3>1, <3>2, OneChanges DEF Execute
  <2> QED
    BY <1>3, <2>1, <2>2, <2>3, <2>4, <2>5, <2>6, <2>7, <2>8 DEF Operation
<1>4. CASE UNCHANGED pluginVars
  BY <1>4 DEF pluginVars, PluginInv, Contents
<1> QED
  BY <1>1, <1>2, <1>3, <1>4 DEF PluginNext

-----------------------------------------------------------------------------
(* The plugins: theorems *)

LEMMA PluginInvariant == PluginSpec => []PluginInv
BY InitPlugin, NextPlugin, PTL DEF PluginSpec

\* The registry file and the processes keep their types, for all plugins and
\* any number of processes.
THEOREM PluginTypes == PluginSpec => []PluginTypeOK
BY PluginInvariant, PluginInvSays, PTL

\* What a process was asked to record is on json, but for what it loaded or
\* unloaded itself (plugin/manager.py:26,37).
THEOREM RecordedIsOnFile == PluginSpec => []OnlyLoadingUnsaved
BY PluginInvariant, PluginInvSays, PTL

-----------------------------------------------------------------------------
(* The server: the inductive invariant *)

Finite == \A client \in Clients : IsFiniteSet(hits[client]) /\ IsFiniteSet(spent[client])

\* The limiter has not forgotten a request in the window, and invents none.
HitsAreSpent ==
    \A client \in Clients : hits[client] \subseteq spent[client] /\ InWindow(client) \subseteq hits[client]

\* Between two servers nothing runs, and nothing that was told is lost.
ToldIsRestored == serving = "down" => running = 0 /\ told \subseteq Restored(file)

ServerInv == TypeOK /\ Finite /\ HitsAreSpent /\ WindowExact /\ ResultsKept /\ ToldIsRestored

\* What the limiter counts is what was let through in the window.
LEMMA RecentIsInWindow ==
    ASSUME ServerInv, NEW client \in Clients
    PROVE  /\ Recent(client) = InWindow(client)
           /\ IsFiniteSet(Recent(client))
           /\ Cardinality(Recent(client)) \in Nat
<1>1. Recent(client) = InWindow(client)
  BY DEF ServerInv, HitsAreSpent, Recent, InWindow
<1>2. IsFiniteSet(hits[client]) /\ Recent(client) \subseteq hits[client]
  BY DEF ServerInv, Finite, Recent
<1>3. IsFiniteSet(Recent(client))
  BY <1>2, FS_Subset
<1> QED
  BY <1>1, <1>3, FS_CardinalityType

LEMMA NewHitType ==
    ASSUME ServerInv, NEW client \in Clients
    PROVE  NewHit(client) \in Hit /\ Hits(client) \in [Clients -> SUBSET Hit]
<1>1. now \in Nat /\ hits \in [Clients -> SUBSET Hit]
  BY ServerAssumption DEF ServerInv, TypeOK
<1>2. NewHit(client) \in Hit
  BY <1>1, RecentIsInWindow DEF NewHit, Hit
<1>3. Recent(client) \subseteq Hit
  BY <1>1 DEF Recent
<1> QED
  BY <1>1, <1>2, <1>3 DEF Hits

-----------------------------------------------------------------------------
(* The server: the limiter *)

\* A step that leaves the clock and what was let through alone.
LEMMA NothingSpent ==
    ASSUME ServerInv, UNCHANGED <<now, hits, spent>>,
           answer'.code # 429
    PROVE  Finite' /\ HitsAreSpent' /\ WindowExact'
<1>1. \A client \in Clients : InWindow(client)' = InWindow(client)
  BY DEF InWindow
<1> QED
  BY <1>1 DEF ServerInv, Finite, HitsAreSpent, WindowExact, Passed

LEMMA TooManyRefused ==
    ASSUME ServerInv, NEW client \in Clients, TooMany(client)
    PROVE  Finite' /\ HitsAreSpent' /\ WindowExact'
<1>1. /\ hits' = [hits EXCEPT ![client] = Recent(client)]
      /\ UNCHANGED <<now, spent>>
      /\ answer'.code = 429 /\ answer'.client = client
      /\ ~(Cardinality(Recent(client)) < Limit)
  BY DEF TooMany, Hits, Answer, Allowed
<1>2. \A c \in Clients : InWindow(c)' = InWindow(c) /\ Passed(c)' = Passed(c)
  BY <1>1 DEF InWindow, Passed
<1>3. \A c \in Clients : hits'[c] \subseteq hits[c] /\ InWindow(c) \subseteq hits'[c]
  <2>1. hits \in [Clients -> SUBSET Hit]
    BY DEF ServerInv, TypeOK
  <2>2. Recent(client) \subseteq hits[client] /\ InWindow(client) \subseteq Recent(client)
    BY RecentIsInWindow DEF Recent
  <2> QED
    BY <1>1, <2>1, <2>2 DEF ServerInv, HitsAreSpent
<1>4. Finite'
  BY <1>1, <1>3, FS_Subset DEF ServerInv, Finite
<1>5. HitsAreSpent'
  BY <1>1, <1>2, <1>3 DEF ServerInv, HitsAreSpent
<1>6. Passed(client) = Limit
  BY <1>1, RecentIsInWindow, ServerAssumption DEF ServerInv, WindowExact, Passed
<1>7. WindowExact'
  BY <1>1, <1>2, <1>6 DEF ServerInv, WindowExact
<1> QED
  BY <1>4, <1>5, <1>7

LEMMA PassCounted ==
    ASSUME ServerInv, NEW client \in Clients, Pass(client),
           answer'.code # 429
    PROVE  Finite' /\ HitsAreSpent' /\ WindowExact'
<1> DEFINE new == NewHit(client)
<1>1. /\ hits' = [hits EXCEPT ![client] = Recent(client) \cup {new}]
      /\ spent' = [spent EXCEPT ![client] = spent[client] \cup {new}]
      /\ now' = now
      /\ Cardinality(Recent(client)) < Limit
  BY DEF Pass, Hits, Allowed
<1>2. hits \in [Clients -> SUBSET Hit] /\ spent \in [Clients -> SUBSET Hit]
  BY DEF ServerInv, TypeOK
<1>3. \A c \in Clients \ {client} : hits'[c] = hits[c] /\ spent'[c] = spent[c]
  BY <1>1, <1>2
<1>4. hits'[client] = Recent(client) \cup {new} /\ spent'[client] = spent[client] \cup {new}
  BY <1>1, <1>2
<1> HIDE DEF new
<1>5. Finite'
  <2>1. IsFiniteSet(Recent(client) \cup {new}) /\ IsFiniteSet(spent[client] \cup {new})
    BY RecentIsInWindow, FS_AddElement DEF ServerInv, Finite
  <2> QED
    BY <1>3, <1>4, <2>1 DEF ServerInv, Finite
<1>6. \A c \in Clients \ {client} : InWindow(c)' = InWindow(c)
  BY <1>1, <1>3 DEF InWindow
<1>7. InWindow(client)' \subseteq Recent(client) \cup {new}
  BY <1>1, <1>4, RecentIsInWindow DEF InWindow
<1>8. HitsAreSpent'
  <2>1. Recent(client) \subseteq spent[client]
    BY DEF ServerInv, HitsAreSpent, Recent
  <2> QED
    BY <1>3, <1>4, <1>6, <1>7, <2>1 DEF ServerInv, HitsAreSpent
<1>9. Cardinality(InWindow(client)') <= Limit
  <2>1. /\ IsFiniteSet(Recent(client) \cup {new})
        /\ Cardinality(Recent(client) \cup {new}) <= Cardinality(Recent(client)) + 1
        /\ Cardinality(Recent(client)) \in Nat
    <3>1. IsFiniteSet(Recent(client)) /\ Cardinality(Recent(client)) \in Nat
      BY RecentIsInWindow
    <3>2. /\ IsFiniteSet(Recent(client) \cup {new})
          /\ Cardinality(Recent(client) \cup {new}) = IF new \in Recent(client)
                                                    THEN Cardinality(Recent(client))
                                                    ELSE Cardinality(Recent(client)) + 1
      BY <3>1, FS_AddElement
    <3> QED
      BY <3>1, <3>2
  <2>2. /\ IsFiniteSet(InWindow(client)')
        /\ Cardinality(InWindow(client)') <= Cardinality(Recent(client) \cup {new})
    BY <1>7, <2>1, FS_Subset
  <2>3. Cardinality(InWindow(client)') \in Nat /\ Cardinality(Recent(client) \cup {new}) \in Nat
    BY <2>1, <2>2, FS_CardinalityType
  <2> QED
    BY <1>1, <2>1, <2>2, <2>3, ServerAssumption
<1>10. WindowExact'
  BY <1>6, <1>9 DEF ServerInv, WindowExact, Passed
<1> QED
  BY <1>5, <1>8, <1>10

LEMMA TickForgets ==
    ASSUME ServerInv, Tick
    PROVE  Finite' /\ HitsAreSpent' /\ WindowExact'
<1>1. now' = now + 1 /\ now \in Nat /\ UNCHANGED <<hits, spent>> /\ answer'.code = 0
  BY DEF Tick, ServerInv, TypeOK, NoAnswer
<1>2. \A c \in Clients : InWindow(c)' \subseteq InWindow(c)
  <2>1. \A c \in Clients : \A hit \in spent[c] : hit.at \in Nat
    BY DEF ServerInv, TypeOK, Hit
  <2> QED
    BY <1>1, <2>1, ServerAssumption DEF InWindow
<1>3. \A c \in Clients : Cardinality(InWindow(c)') <= Limit
  <2> SUFFICES ASSUME NEW c \in Clients PROVE Cardinality(InWindow(c)') <= Limit
    OBVIOUS
  <2>1. IsFiniteSet(InWindow(c)) /\ Cardinality(InWindow(c)) \in Nat
    BY RecentIsInWindow
  <2>2. IsFiniteSet(InWindow(c)') /\ Cardinality(InWindow(c)') <= Cardinality(InWindow(c))
    BY <1>2, <2>1, FS_Subset
  <2>3. Cardinality(InWindow(c)') \in Nat
    BY <2>2, FS_CardinalityType
  <2> QED
    BY <2>1, <2>2, <2>3, ServerAssumption DEF ServerInv, WindowExact, Passed
<1> QED
  BY <1>1, <1>2, <1>3 DEF ServerInv, Finite, HitsAreSpent, WindowExact, Passed

LEMMA EndsForgets ==
    ASSUME ServerInv, Ends
    PROVE  Finite' /\ HitsAreSpent' /\ WindowExact'
<1>1. \A c \in Clients : hits'[c] = {} /\ spent'[c] = {} /\ InWindow(c)' = {}
  BY DEF Ends, NoHits, InWindow
<1>2. answer'.code = 0
  BY DEF Ends, NoAnswer
<1>3. IsFiniteSet({}) /\ Cardinality({}) = 0 /\ 0 <= Limit
  BY FS_EmptySet, ServerAssumption
<1>4. Finite' /\ HitsAreSpent'
  BY <1>1, <1>3 DEF Finite, HitsAreSpent
<1>5. WindowExact'
  BY <1>1, <1>2, <1>3 DEF WindowExact, Passed
<1> QED
  BY <1>4, <1>5

-----------------------------------------------------------------------------
(* The server: induction *)

LEMMA InitServer == ASSUME Init PROVE ServerInv
<1>1. TypeOK
  <2>1. file \in Files(SUBSET Plans)
    BY DEF Init, Files
  <2>2. hits \in [Clients -> SUBSET Hit] /\ spent \in [Clients -> SUBSET Hit]
    BY DEF Init, NoHits
  <2>3. now \in 0 .. MaxTime /\ running \in 0 .. MaxRuns
    BY ServerAssumption DEF Init
  <2> QED
    BY <2>1, <2>2, <2>3 DEF Init, TypeOK
<1>2. \A c \in Clients : hits[c] = {} /\ spent[c] = {} /\ InWindow(c) = {}
  BY DEF Init, NoHits, InWindow
<1>3. Finite /\ HitsAreSpent /\ WindowExact
  BY <1>2, FS_EmptySet, ServerAssumption DEF Init, NoAnswer, Finite, HitsAreSpent, WindowExact, Passed
<1> QED
  BY <1>1, <1>3 DEF Init, ServerInv, ResultsKept, ToldIsRestored

\* A request that the limiter lets through keeps the types, however it is answered.
LEMMA PassType ==
    ASSUME ServerInv, NEW client \in Clients, Pass(client),
           running' \in 0 .. MaxRuns
    PROVE  TypeOK' /\ ResultsKept' /\ ToldIsRestored'
<1>1. spent' \in [Clients -> SUBSET Hit] /\ hits' \in [Clients -> SUBSET Hit]
  BY NewHitType DEF Pass, ServerInv, TypeOK
<1> QED
  BY <1>1 DEF Pass, ServerInv, TypeOK, ResultsKept, ToldIsRestored

LEMMA RestoredType == TypeOK => Restored(file) \subseteq Plans
BY DEF TypeOK, Files, Absent, Torn, Garbled, Whole, Restored

LEMMA NextServer == ASSUME ServerInv, [Next]_vars PROVE ServerInv'
<1> USE DEF ServerInv
<1>1. ASSUME NEW client \in Clients, Misdirected(client) PROVE ServerInv'
  <2>1. Finite' /\ HitsAreSpent' /\ WindowExact'
    BY <1>1, NothingSpent DEF Misdirected, Answer
  <2>2. TypeOK' /\ ResultsKept' /\ ToldIsRestored'
    BY <1>1 DEF Misdirected, TypeOK, ResultsKept, ToldIsRestored
  <2> QED
    BY <2>1, <2>2
<1>2. ASSUME NEW client \in Clients, TooMany(client) PROVE ServerInv'
  <2>1. Finite' /\ HitsAreSpent' /\ WindowExact'
    BY <1>2, TooManyRefused
  <2>2. TypeOK' /\ ResultsKept' /\ ToldIsRestored'
    BY <1>2, NewHitType DEF TooMany, TypeOK, ResultsKept, ToldIsRestored
  <2> QED
    BY <2>1, <2>2
<1>3. ASSUME NEW client \in Clients, Unauthorized(client) \/ Served(client) PROVE ServerInv'
  <2>1. Finite' /\ HitsAreSpent' /\ WindowExact'
    BY <1>3, PassCounted DEF Unauthorized, Served, Answer
  <2>2. TypeOK' /\ ResultsKept' /\ ToldIsRestored'
    BY <1>3, PassType DEF Unauthorized, Served, TypeOK
  <2> QED
    BY <2>1, <2>2
<1>4. ASSUME NEW client \in Clients, RunWorkflow(client) PROVE ServerInv'
  <2>1. Finite' /\ HitsAreSpent' /\ WindowExact'
    BY <1>4, PassCounted DEF RunWorkflow, NoAnswer
  <2>2. running' \in 0 .. MaxRuns
    BY <1>4, ServerAssumption DEF RunWorkflow, TypeOK
  <2>3. TypeOK' /\ ResultsKept' /\ ToldIsRestored'
    BY <1>4, <2>2, PassType DEF RunWorkflow
  <2> QED
    BY <2>1, <2>3
<1>5. ASSUME NEW client \in Clients, NEW plan \in Plans, GetWorkflow(client, plan) PROVE ServerInv'
  <2>1. Finite' /\ HitsAreSpent' /\ WindowExact'
    BY <1>5, PassCounted DEF GetWorkflow, Answer
  <2>2. TypeOK' /\ ResultsKept' /\ ToldIsRestored'
    BY <1>5, PassType DEF GetWorkflow, TypeOK
  <2> QED
    BY <2>1, <2>2
<1>6. ASSUME NEW plan \in Plans, NEW status, WorkflowEnded(plan, status) PROVE ServerInv'
  <2>1. Finite' /\ HitsAreSpent' /\ WindowExact'
    BY <1>6, NothingSpent DEF WorkflowEnded, NoAnswer
  <2>2. TypeOK'
    BY <1>6, ServerAssumption DEF WorkflowEnded, TypeOK
  <2>3. serving # "down"
    BY <1>6 DEF WorkflowEnded, ToldIsRestored, TypeOK
  <2>4. ResultsKept' /\ ToldIsRestored'
    BY <1>6, <2>3 DEF WorkflowEnded, ResultsKept, ToldIsRestored
  <2> QED
    BY <2>1, <2>2, <2>4
<1>7. CASE WorkflowRaised
  <2>1. Finite' /\ HitsAreSpent' /\ WindowExact'
    BY <1>7, NothingSpent DEF WorkflowRaised, NoAnswer
  <2>2. TypeOK' /\ ResultsKept' /\ ToldIsRestored'
    BY <1>7, ServerAssumption DEF WorkflowRaised, TypeOK, ResultsKept, ToldIsRestored
  <2> QED
    BY <2>1, <2>2
<1>8. CASE Start
  <2>1. Finite' /\ HitsAreSpent' /\ WindowExact'
    BY <1>8, NothingSpent DEF Start, NoAnswer
  <2>2. TypeOK' /\ ResultsKept' /\ ToldIsRestored'
    BY <1>8, RestoredType DEF Start, TypeOK, ResultsKept, ToldIsRestored
  <2> QED
    BY <2>1, <2>2
<1>9. CASE StartFails
  <2>1. Finite' /\ HitsAreSpent' /\ WindowExact'
    BY <1>9, NothingSpent DEF StartFails, NoAnswer
  <2>2. TypeOK' /\ ResultsKept' /\ ToldIsRestored'
    BY <1>9 DEF StartFails, TypeOK, ResultsKept, ToldIsRestored
  <2> QED
    BY <2>1, <2>2
<1>10. CASE Stop
  <2>1. Finite' /\ HitsAreSpent' /\ WindowExact'
    BY <1>10, NothingSpent DEF Stop, NoAnswer
  <2>2. TypeOK' /\ ResultsKept' /\ ToldIsRestored'
    BY <1>10 DEF Stop, TypeOK, ResultsKept, ToldIsRestored
  <2> QED
    BY <2>1, <2>2
<1>11. CASE Stopped
  <2>1. Finite' /\ HitsAreSpent' /\ WindowExact'
    BY <1>11, EndsForgets DEF Stopped
  <2>2. file' \in {Whole(results), file, Torn, Garbled} /\ told' \subseteq told
    BY <1>11 DEF Stopped
  <2>3. TypeOK'
    BY <1>11, <2>2, ServerAssumption DEF Stopped, Ends, NoHits, TypeOK, Files
  <2>4. ToldIsRestored'
    <3>1. CASE file' = Whole(results) /\ UNCHANGED told
      <4>1. Restored(file') = results
        BY <3>1 DEF Whole, Restored
      <4>2. told \subseteq results
        BY <1>11 DEF Stopped, ResultsKept
      <4> QED
        BY <1>11, <3>1, <4>1, <4>2 DEF Stopped, Ends, ToldIsRestored
    <3>2. CASE told' = told \cap Restored(file')
      BY <1>11, <3>2 DEF Stopped, Ends, ToldIsRestored
    <3> QED
      BY <1>11, <3>1, <3>2 DEF Stopped
  <2>5. ResultsKept'
    BY <1>11 DEF Stopped, Ends, ResultsKept
  <2> QED
    BY <2>1, <2>3, <2>4, <2>5
<1>12. CASE Kill
  <2>1. Finite' /\ HitsAreSpent' /\ WindowExact'
    BY <1>12, EndsForgets DEF Kill
  <2>2. TypeOK'
    BY <1>12, ServerAssumption DEF Kill, Ends, NoHits, TypeOK
  <2>3. ResultsKept' /\ ToldIsRestored'
    BY <1>12 DEF Kill, Ends, Restored, ResultsKept, ToldIsRestored
  <2> QED
    BY <2>1, <2>2, <2>3
<1>13. CASE Tick
  <2>1. Finite' /\ HitsAreSpent' /\ WindowExact'
    BY <1>13, TickForgets
  <2>2. TypeOK' /\ ResultsKept' /\ ToldIsRestored'
    BY <1>13, ServerAssumption DEF Tick, TypeOK, ResultsKept, ToldIsRestored
  <2> QED
    BY <2>1, <2>2
<1>14. CASE UNCHANGED vars
  <2>1. \A c \in Clients : InWindow(c)' = InWindow(c)
    BY <1>14 DEF vars, InWindow
  <2>2. Finite' /\ HitsAreSpent'
    BY <1>14, <2>1 DEF vars, Finite, HitsAreSpent
  <2>3. InWindow(answer.client)' = InWindow(answer.client) /\ answer' = answer
    BY <1>14 DEF vars, InWindow
  <2>4. WindowExact'
    BY <2>1, <2>3 DEF WindowExact, Passed
  <2>5. TypeOK' /\ ResultsKept' /\ ToldIsRestored'
    BY <1>14 DEF vars, TypeOK, ResultsKept, ToldIsRestored
  <2> QED
    BY <2>2, <2>4, <2>5
<1> HIDE DEF ServerInv
<1> QED
  BY <1>1, <1>2, <1>3, <1>4, <1>5, <1>6, <1>7, <1>8, <1>9, <1>10, <1>11, <1>12, <1>13, <1>14
  DEF Next

-----------------------------------------------------------------------------
(* The server: theorems *)

LEMMA ServerInvariant == Spec => []ServerInv
BY InitServer, NextServer, PTL DEF Spec

\* The server's state keeps its types, for all clients, plans and bounds.
THEOREM ServerTypes == Spec => []TypeOK
<1>1. ServerInv => TypeOK
  BY DEF ServerInv
<1> QED
  BY <1>1, ServerInvariant, PTL

\* No window holds more requests of a client than the limit, and a request is
\* refused only when the window is full (server/app.py:79).
THEOREM LimitKept == Spec => []WindowExact
<1>1. ServerInv => WindowExact
  BY DEF ServerInv
<1> QED
  BY <1>1, ServerInvariant, PTL

\* While the server is up it has every result that it should
\* (server/app.py:121,334).
THEOREM ToldIsKept == Spec => []ResultsKept
<1>1. ServerInv => ResultsKept
  BY DEF ServerInv
<1> QED
  BY <1>1, ServerInvariant, PTL

-----------------------------------------------------------------------------
(* Parts of a sequence *)

\* The places of a set of numbers, and the numbers, correspond.
LEMMA InOrderFacts ==
    ASSUME NEW n \in Nat, NEW S \in SUBSET (1 .. n)
    PROVE  /\ Cardinality(S) \in 0 .. n
           /\ InOrder(S) \in [1 .. Cardinality(S) -> S]
           /\ \A i, j \in 1 .. Cardinality(S) : InOrder(S)[i] = InOrder(S)[j] => i = j
           /\ \A k \in S : \E i \in 1 .. Cardinality(S) : InOrder(S)[i] = k
<1> DEFINE c == Cardinality(S)
           upto(k) == {j \in S : j <= k}
           rank == [k \in S |-> Cardinality(upto(k))]
<1>1. IsFiniteSet(S) /\ c <= n
  <2>1. IsFiniteSet(1 .. n) /\ Cardinality(1 .. n) = n
    BY FS_Interval
  <2> QED BY <2>1, FS_Subset
<1>2. c \in Nat
  BY <1>1, FS_CardinalityType
<1>3. ASSUME NEW k \in S
      PROVE  IsFiniteSet(upto(k)) /\ rank[k] \in 1 .. c
  <2>1. IsFiniteSet(upto(k)) /\ Cardinality(upto(k)) <= c
    BY <1>1, FS_Subset
  <2>2. Cardinality(upto(k)) \in Nat
    BY <2>1, FS_CardinalityType
  <2>3. k \in upto(k)
    OBVIOUS
  <2>4. Cardinality(upto(k)) # 0
    BY <2>1, <2>3, FS_EmptySet
  <2>5. rank[k] = Cardinality(upto(k))
    OBVIOUS
  <2> HIDE DEF upto, rank, c
  <2> QED BY <1>2, <2>1, <2>2, <2>4, <2>5
<1>4. ASSUME NEW j \in S, NEW k \in S, j < k PROVE rank[j] # rank[k]
  <2>1. (\A i \in S : i <= j => i <= k) /\ k <= k /\ ~(k <= j)
    BY <1>4
  <2>2. upto(j) \subseteq upto(k) /\ k \in upto(k) /\ k \notin upto(j)
    BY <1>4, <2>1
  <2>3. Cardinality(upto(j)) # Cardinality(upto(k))
    BY <1>3, <2>2, FS_Subset
  <2> QED BY <2>3
<1>5. \A j, k \in S : rank[j] = rank[k] => j = k
  <2>1. \A j, k \in S : j < k \/ k < j \/ j = k
    OBVIOUS
  <2> HIDE DEF rank
  <2> QED BY <1>4, <2>1
<1>6. rank \in [S -> 1 .. c]
  BY <1>3
<1>7. rank \in Injection(S, 1 .. c)
  BY <1>5, <1>6 DEF Injection, IsInjective
<1>8. IsFiniteSet(1 .. c) /\ Cardinality(1 .. c) = Cardinality(S)
  BY <1>2, FS_Interval
<1>9. rank \in Surjection(S, 1 .. c)
  BY <1>7, <1>8, FS_Injection
<1>10. ASSUME NEW i \in 1 .. c PROVE InOrder(S)[i] \in S /\ rank[InOrder(S)[i]] = i
  <2>1. \E k \in S : Cardinality({j \in S : j <= k}) = i
    BY <1>9 DEF Surjection
  <2>2. InOrder(S)[i] = CHOOSE k \in S : Cardinality({j \in S : j <= k}) = i
    BY DEF InOrder
  <2>3. InOrder(S)[i] \in S /\ Cardinality(upto(InOrder(S)[i])) = i
    BY <2>1, <2>2
  <2> QED BY <2>3
<1>11. InOrder(S) = [i \in 1 .. c |-> InOrder(S)[i]]
  BY DEF InOrder
<1> HIDE DEF c, rank
<1>12. InOrder(S) \in [1 .. c -> S]
  BY <1>10, <1>11
<1>13. \A i, j \in 1 .. c : InOrder(S)[i] = InOrder(S)[j] => i = j
  BY <1>10
<1>14. \A k \in S : rank[k] \in 1 .. c /\ InOrder(S)[rank[k]] = k
  BY <1>5, <1>6, <1>10
<1> QED BY <1>1, <1>2, <1>12, <1>13, <1>14 DEF c

\* What is picked is there once for each place it is picked from.
LEMMA PickedFacts ==
    ASSUME NEW T, NEW list \in Seq(T), NEW S \in SUBSET DOMAIN list
    PROVE  /\ Picked(list, S) \in Seq(T)
           /\ Len(Picked(list, S)) = Cardinality(S) /\ Cardinality(S) \in 0 .. Len(list)
           /\ \A i \in DOMAIN Picked(list, S) :
                InOrder(S)[i] \in S /\ Picked(list, S)[i] = list[InOrder(S)[i]]
           /\ \A i, j \in DOMAIN Picked(list, S) : InOrder(S)[i] = InOrder(S)[j] => i = j
           /\ \A k \in S : \E i \in DOMAIN Picked(list, S) : Picked(list, S)[i] = list[k]
           /\ Picked(list, S) = <<>> <=> S = {}
<1> DEFINE c == Cardinality(S)
           order == InOrder(S)
<1>1. Len(list) \in Nat /\ DOMAIN list = 1 .. Len(list)
  OBVIOUS
<1>2. /\ c \in 0 .. Len(list)
      /\ order \in [1 .. c -> S]
      /\ \A i, j \in 1 .. c : order[i] = order[j] => i = j
      /\ \A k \in S : \E i \in 1 .. c : order[i] = k
  BY <1>1, InOrderFacts
<1>3. DOMAIN order = 1 .. c
  BY <1>2
<1>4. Picked(list, S) = [i \in 1 .. c |-> list[order[i]]]
  BY <1>3 DEF Picked
<1> HIDE DEF c, order
<1>5. \A i \in 1 .. c : order[i] \in S /\ list[order[i]] \in T
  BY <1>2, <1>1, ElementOfSeq
<1>6. Picked(list, S) \in [1 .. c -> T]
  BY <1>4, <1>5
<1>7. c \in Nat
  BY <1>1, <1>2
<1>8. Picked(list, S) \in Seq(T) /\ Len(Picked(list, S)) = c /\ DOMAIN Picked(list, S) = 1 .. c
  BY <1>6, <1>7, SeqDef, LenProperties
<1>9. \A i \in 1 .. c : Picked(list, S)[i] = list[order[i]]
  BY <1>4
<1>10. \A k \in S : \E i \in 1 .. c : Picked(list, S)[i] = list[k]
  BY <1>2, <1>9
<1>11. Picked(list, S) = <<>> <=> S = {}
  <2>1. Picked(list, S) = <<>> <=> c = 0
    BY <1>7, <1>8, EmptySeq
  <2>2. S = {} => c = 0
    BY FS_EmptySet DEF c
  <2>3. S # {} => c # 0
    BY <1>2
  <2> QED BY <2>1, <2>2, <2>3
<1> QED BY <1>2, <1>5, <1>8, <1>9, <1>10, <1>11 DEF c, order

-----------------------------------------------------------------------------
(* Sums *)

\* Of numbers there is a least one.
LEMMA LeastOne == ASSUME NEW T \in SUBSET Nat, T # {} PROVE \E n \in T : \A k \in T : ~(k < n)
<1> DEFINE Less == {pair \in Nat \X Nat : pair[1] < pair[2]}
<1>1. IsWellFoundedOn(Less, Nat)
  BY NatLessThanWellFounded, Zenon DEF OpToRel
<1> HIDE DEF Less
<1>2. PICK n \in T : \A k \in T : <<k, n>> \notin Less
  BY <1>1, WFMin
<1>3. \A k \in T : ~(k < n)
  BY <1>2 DEF Less
<1> QED BY <1>3

\* A set of numbers that has the first, and with each the next one, has all.
LEMMA AllOfThem ==
    ASSUME NEW N \in Nat, NEW S, 0 \in S, \A n \in 1 .. N : n - 1 \in S => n \in S
    PROVE  0 .. N \subseteq S
<1> DEFINE T == {n \in 0 .. N : n \notin S}
<1> SUFFICES ASSUME T # {} PROVE FALSE
  OBVIOUS
<1>2. T \subseteq Nat
  OBVIOUS
<1>4. PICK n \in T : \A k \in T : ~(k < n)
  BY <1>2, LeastOne
<1>5. n \in 1 .. N /\ n - 1 \in 0 .. N /\ n - 1 < n
  OBVIOUS
<1>6. n - 1 \in S
  BY <1>4, <1>5
<1> QED BY <1>4, <1>5, <1>6

\* Entries whose sizes can be added up.
Sized == [key : Keys, size : Nat, at : 0 .. LastTime]
First(s) == CHOOSE x \in s : TRUE
SumOf(it, s) == IF s = {} THEN 0 ELSE First(s).size + it[s \ {First(s)}]
IsSum(it, E) == it = [s \in SUBSET E |-> SumOf(it, s)]

LEMMA OneLess ==
    ASSUME NEW E, IsFiniteSet(E), NEW s \in SUBSET E
    PROVE  /\ IsFiniteSet(s) /\ Cardinality(s) \in 0 .. Cardinality(E) /\ Cardinality(E) \in Nat
           /\ Cardinality(s) = 0 <=> s = {}
           /\ s # {} => First(s) \in s
           /\ \A x \in s : s \ {x} \in SUBSET E /\ Cardinality(s \ {x}) = Cardinality(s) - 1
<1>1. /\ IsFiniteSet(s) /\ Cardinality(s) <= Cardinality(E)
      /\ Cardinality(s) \in Nat /\ Cardinality(E) \in Nat
  BY FS_Subset, FS_CardinalityType
<1>2. Cardinality(s) = 0 <=> s = {}
  BY <1>1, FS_EmptySet
<1>3. \A x \in s : Cardinality(s \ {x}) = Cardinality(s) - 1
  BY <1>1, FS_RemoveElement
<1> QED BY <1>1, <1>2, <1>3 DEF First

\* There is a sum: for larger and larger subsets, from those for the smaller ones.
LEMMA SumExists ==
    ASSUME NEW E \in SUBSET Sized, IsFiniteSet(E) PROVE \E it : IsSum(it, E)
<1> DEFINE N == Cardinality(E)
           Upto(n, it) == /\ it \in [SUBSET E -> Nat]
                          /\ \A s \in SUBSET E : Cardinality(s) <= n => it[s] = SumOf(it, s)
           S == {n \in 0 .. N : \E it : Upto(n, it)}
<1>1. N \in Nat
  BY FS_CardinalityType
<1>2. 0 \in S
  <2> DEFINE it == [s \in SUBSET E |-> 0]
  <2>1. \A s \in SUBSET E : Cardinality(s) <= 0 => s = {}
    BY OneLess
  <2>2. \A s \in SUBSET E : Cardinality(s) <= 0 => it[s] = SumOf(it, s)
    BY <2>1 DEF SumOf
  <2>3. it \in [SUBSET E -> Nat]
    OBVIOUS
  <2>4. Upto(0, it)
    BY <2>2, <2>3
  <2> HIDE DEF it, Upto, N
  <2>5. 0 \in 0 .. N
    BY <1>1
  <2> QED BY <2>4, <2>5
<1>3. ASSUME NEW n \in 1 .. N, n - 1 \in S PROVE n \in S
  <2>1. PICK it : Upto(n - 1, it)
    BY <1>3
  <2> DEFINE next == [s \in SUBSET E |-> SumOf(it, s)]
  <2>2. ASSUME NEW s \in SUBSET E PROVE SumOf(it, s) \in Nat
    <3>1. CASE s = {}
      BY <3>1 DEF SumOf
    <3>2. CASE s # {}
      <4>1. First(s) \in s /\ s \ {First(s)} \in SUBSET E
        BY <3>2, OneLess
      <4>2. First(s).size \in Nat /\ it[s \ {First(s)}] \in Nat
        BY <2>1, <4>1 DEF Sized
      <4> QED BY <3>2, <4>2 DEF SumOf
    <3> QED BY <3>1, <3>2
  <2>3. next \in [SUBSET E -> Nat]
    BY <2>2
  <2>4. ASSUME NEW s \in SUBSET E, Cardinality(s) <= n PROVE next[s] = SumOf(next, s)
    <3>1. CASE s = {}
      BY <3>1 DEF SumOf
    <3>2. CASE s # {}
      <4> DEFINE less == s \ {First(s)}
      <4>1. less \in SUBSET E /\ Cardinality(less) = Cardinality(s) - 1 /\ Cardinality(s) \in Nat
        BY <3>2, OneLess
      <4>2. Cardinality(less) <= n - 1
        BY <2>4, <4>1
      <4>3. it[less] = SumOf(it, less)
        BY <2>1, <4>1, <4>2
      <4>4. next[less] = it[less]
        BY <4>1, <4>3
      <4> QED BY <3>2, <4>4 DEF SumOf
    <3> QED BY <3>1, <3>2
  <2>5. Upto(n, next)
    BY <2>3, <2>4
  <2> HIDE DEF Upto, next
  <2> QED BY <2>5
<1> HIDE DEF S
<1>4. 0 .. N \subseteq S
  BY <1>1, <1>2, <1>3, AllOfThem
<1>5. N \in S
  BY <1>1, <1>4
<1>6. PICK it : Upto(N, it)
  BY <1>5 DEF S
<1>7. \A s \in SUBSET E : it[s] = SumOf(it, s)
  BY <1>6, OneLess
<1>8. it = [s \in SUBSET E |-> SumOf(it, s)]
  BY <1>6, <1>7
<1> QED BY <1>8 DEF IsSum

LEMMA SumStep ==
    ASSUME NEW E, NEW it, IsSum(it, E), NEW s \in SUBSET E PROVE it[s] = SumOf(it, s)
<1>1. it = [r \in SUBSET E |-> SumOf(it, r)]
  BY DEF IsSum
<1>2. [r \in SUBSET E |-> SumOf(it, r)][s] = SumOf(it, s)
  OBVIOUS
<1> QED BY <1>1, <1>2

\* The order in which the elements are taken makes no difference, and a part has
\* no greater sum than the whole.
LEMMA SumFacts ==
    ASSUME NEW E \in SUBSET Sized, IsFiniteSet(E), NEW it, IsSum(it, E)
    PROVE  /\ \A s \in SUBSET E : it[s] \in Nat
           /\ \A s \in SUBSET E : \A x \in s : it[s] = x.size + it[s \ {x}]
           /\ \A s \in SUBSET E : \A t \in SUBSET s : it[t] <= it[s]
<1> DEFINE N == Cardinality(E)
           Good(s) == /\ it[s] \in Nat
                      /\ \A x \in s : it[s] = x.size + it[s \ {x}]
                      /\ \A t \in SUBSET s : it[t] <= it[s]
           S == {n \in 0 .. N : \A s \in SUBSET E : Cardinality(s) <= n => Good(s)}
<1>1. N \in Nat
  BY FS_CardinalityType
<1>2. 0 \in S
  <2>1. \A s \in SUBSET E : Cardinality(s) <= 0 => s = {}
    BY OneLess
  <2>2. it[{}] = 0
    BY SumStep DEF SumOf
  <2>3. Good({})
    BY <2>2
  <2> HIDE DEF Good
  <2> QED BY <1>1, <2>1, <2>3
<1>3. ASSUME NEW n \in 1 .. N, n - 1 \in S PROVE n \in S
  <2>1. ASSUME NEW s \in SUBSET E, Cardinality(s) <= n, s # {} PROVE Good(s)
    <3> DEFINE c == First(s)
    <3>1. c \in s /\ it[s] = c.size + it[s \ {c}]
      <4>1. it[s] = SumOf(it, s)
        BY SumStep
      <4>2. c \in s
        BY <2>1, OneLess
      <4> QED BY <2>1, <4>1, <4>2 DEF SumOf
    <3>2. ASSUME NEW x \in s
          PROVE  /\ x.size \in Nat /\ it[s \ {x}] \in Nat
                 /\ \A y \in s \ {x} : it[s \ {x}] = y.size + it[(s \ {x}) \ {y}]
                 /\ \A t \in SUBSET (s \ {x}) : it[t] <= it[s \ {x}]
      <4>1. s \ {x} \in SUBSET E /\ Cardinality(s \ {x}) = Cardinality(s) - 1
        BY OneLess
      <4>2. Cardinality(s) \in Nat
        BY OneLess
      <4>3. Cardinality(s \ {x}) <= n - 1
        BY <2>1, <4>1, <4>2
      <4>4. Good(s \ {x})
        BY <1>3, <4>1, <4>3
      <4>5. x.size \in Nat
        BY DEF Sized
      <4> QED BY <4>4, <4>5
    <3>3. it[s] \in Nat
      <4> HIDE DEF c
      <4>1. c.size \in Nat /\ it[s \ {c}] \in Nat
        BY <3>1, <3>2
      <4> QED BY <3>1, <4>1
    <3>4. ASSUME NEW x \in s PROVE it[s] = x.size + it[s \ {x}]
      <4>1. CASE x = c
        BY <3>1, <4>1
      <4>2. CASE x # c
        <5>1. it[s \ {c}] = x.size + it[(s \ {c}) \ {x}]
          BY <3>1, <3>2, <4>2
        <5>2. it[s \ {x}] = c.size + it[(s \ {x}) \ {c}]
          BY <3>1, <3>2, <4>2
        <5>3. (s \ {c}) \ {x} = (s \ {x}) \ {c}
          OBVIOUS
        <5> DEFINE rest == it[(s \ {c}) \ {x}]
        <5>4. it[(s \ {x}) \ {c}] = rest
          BY <5>3
        <5>5. /\ it[s \ {c}] = x.size + rest /\ it[s \ {x}] = c.size + rest
              /\ it[s] = c.size + it[s \ {c}]
          BY <3>1, <5>1, <5>2, <5>4
        <5>6. x.size \in Nat /\ c.size \in Nat /\ it[s \ {x}] \in Nat /\ it[s \ {c}] \in Nat
          BY <3>1, <3>2
        <5>7. rest \in Nat
          <6>1. (s \ {c}) \ {x} \in SUBSET E /\ Cardinality((s \ {c}) \ {x}) <= n - 1
            <7>1. s \ {c} \in SUBSET E /\ Cardinality(s \ {c}) = Cardinality(s) - 1
              BY <3>1, OneLess
            <7>2. x \in s \ {c}
              BY <4>2
            <7> DEFINE r == s \ {c}
            <7> HIDE DEF r
            <7>5. r \in SUBSET E /\ x \in r
              BY <7>1, <7>2 DEF r
            <7>6. r \ {x} \in SUBSET E /\ Cardinality(r \ {x}) = Cardinality(r) - 1
              BY <7>5, OneLess
            <7>3. Cardinality((s \ {c}) \ {x}) = Cardinality(s \ {c}) - 1
              BY <7>6 DEF r
            <7>4. Cardinality(s) \in Nat
              BY OneLess
            <7> QED BY <2>1, <7>1, <7>3, <7>4
          <6>2. Good((s \ {c}) \ {x})
            BY <1>3, <6>1
          <6> QED BY <6>2
        <5> HIDE DEF rest, c
        <5> QED BY <5>5, <5>6, <5>7
      <4> QED BY <4>1, <4>2
    <3>5. ASSUME NEW t \in SUBSET s PROVE it[t] <= it[s]
      <4>1. CASE t = s
        BY <3>3, <4>1
      <4>2. CASE t # s
        <5>1. PICK x \in s : x \notin t
          BY <4>2
        <5>2. t \in SUBSET (s \ {x})
          BY <5>1
        <5>3. it[t] <= it[s \ {x}] /\ it[s \ {x}] \in Nat /\ x.size \in Nat
          BY <3>2, <5>2
        <5>4. it[s] = x.size + it[s \ {x}]
          BY <3>4
        <5>5. t \in SUBSET E /\ Cardinality(t) <= n - 1
          <6>1. Cardinality(s \ {x}) = Cardinality(s) - 1 /\ Cardinality(s) \in Nat
            BY OneLess
          <6>2. s \ {x} \in SUBSET E
            OBVIOUS
          <6>3. IsFiniteSet(s \ {x})
            BY <6>2, OneLess
          <6>4. Cardinality(t) <= Cardinality(s \ {x}) /\ Cardinality(t) \in Nat
            BY <5>2, <6>3, FS_Subset, FS_CardinalityType
          <6> QED BY <2>1, <6>1, <6>4
        <5>6. it[t] \in Nat
          BY <1>3, <5>5
        <5> QED BY <5>3, <5>4, <5>6
      <4> QED BY <4>1, <4>2
    <3> QED BY <3>3, <3>4, <3>5
  <2>2. Good({})
    BY <1>2, FS_EmptySet
  <2> HIDE DEF Good
  <2> QED BY <2>1, <2>2
<1> HIDE DEF S
<1>4. 0 .. N \subseteq S
  BY <1>1, <1>2, <1>3, AllOfThem
<1>5. N \in S
  BY <1>1, <1>4
<1>6. \A s \in SUBSET E : Good(s)
  BY <1>5, OneLess DEF S
<1> QED BY <1>6

LEMMA TotalIsSum ==
    ASSUME NEW E \in SUBSET Sized, IsFiniteSet(E)
    PROVE  \E it : IsSum(it, E) /\ Total(E) = it[E]
<1> DEFINE it == CHOOSE iter : IsSum(iter, E)
<1>1. IsSum(it, E)
  BY SumExists
<1>2. Total(E) = it[E]
  BY DEF Total, MapThenSumSet, MapThenFoldSet, IsSum, SumOf, First
<1> QED BY <1>1, <1>2

\* The total of some entries is a number, and no more than that of more entries.
LEMMA TotalFacts ==
    ASSUME NEW E \in SUBSET Sized, IsFiniteSet(E), NEW s \in SUBSET E
    PROVE  Total(s) \in Nat /\ Total(E) \in Nat /\ Total(s) <= Total(E) /\ Total({}) = 0
<1>1. IsFiniteSet(s) /\ s \in SUBSET Sized
  BY FS_Subset
<1>2. PICK whole : IsSum(whole, E) /\ Total(E) = whole[E]
  BY TotalIsSum
<1>3. PICK part : IsSum(part, s) /\ Total(s) = part[s]
  BY <1>1, TotalIsSum
<1> DEFINE N == Cardinality(s)
           S == {n \in 0 .. N : \A r \in SUBSET s : Cardinality(r) <= n => part[r] = whole[r]}
<1>4. N \in Nat
  BY <1>1, FS_CardinalityType
<1>5. 0 \in S
  <2>1. \A r \in SUBSET s : Cardinality(r) <= 0 => r = {}
    BY <1>1, OneLess
  <2>2. part[{}] = whole[{}]
    BY <1>2, <1>3, SumStep DEF SumOf
  <2>3. 0 \in 0 .. N
    BY <1>4
  <2> QED BY <2>1, <2>2, <2>3
<1>6. ASSUME NEW n \in 1 .. N, n - 1 \in S PROVE n \in S
  <2>1. ASSUME NEW r \in SUBSET s, Cardinality(r) <= n PROVE part[r] = whole[r]
    <3>1. part[r] = SumOf(part, r) /\ whole[r] = SumOf(whole, r)
      BY <1>2, <1>3, SumStep
    <3>2. CASE r = {}
      BY <3>1, <3>2 DEF SumOf
    <3>3. CASE r # {}
      <4> DEFINE less == r \ {First(r)}
      <4>1. less \in SUBSET s /\ Cardinality(less) = Cardinality(r) - 1 /\ Cardinality(r) \in Nat
        BY <1>1, <3>3, OneLess
      <4>2. Cardinality(less) <= n - 1
        BY <2>1, <4>1
      <4>3. part[less] = whole[less]
        BY <1>6, <4>1, <4>2
      <4> QED BY <3>1, <3>3, <4>3 DEF SumOf
    <3> QED BY <3>2, <3>3
  <2> QED BY <2>1
<1> HIDE DEF S
<1>7. 0 .. N \subseteq S
  BY <1>4, <1>5, <1>6, AllOfThem
<1>8. N \in S
  BY <1>4, <1>7
<1>9. part[s] = whole[s]
  BY <1>4, <1>8 DEF S
<1>10. whole[s] \in Nat /\ whole[E] \in Nat /\ whole[s] <= whole[E]
  BY <1>2, SumFacts
<1>11. Total({}) = 0
  <2>1. IsFiniteSet({}) /\ {} \in SUBSET Sized
    BY FS_EmptySet
  <2>2. PICK it : IsSum(it, {}) /\ Total({}) = it[{}]
    BY <2>1, TotalIsSum
  <2> QED BY <2>2, SumStep DEF SumOf
<1> QED BY <1>2, <1>3, <1>9, <1>10, <1>11

-----------------------------------------------------------------------------
(* The offline cache: lists of entries *)

Unrepeated(list) == /\ list \in Seq(CacheEntry)
                    /\ \A i, j \in DOMAIN list : list[i].key = list[j].key => i = j

\* No entry is younger than the last time its key was cached.
Dated(list, dates) == \A i \in DOMAIN list : list[i].at <= dates[list[i].key]

LEMMA EntryIsSized == CacheEntry \subseteq Sized
<1>1. Sizes \cup {0} \subseteq Nat
  BY CacheAssumption
<1> QED BY <1>1 DEF CacheEntry, Sized

LEMMA EmptyList == Unrepeated(<<>>) /\ \A dates : Dated(<<>>, dates)
BY DEF Unrepeated, Dated

LEMMA ListFacts ==
    ASSUME NEW list, Unrepeated(list)
    PROVE  /\ ToSet(list) = {list[i] : i \in DOMAIN list}
           /\ ToSet(list) \in SUBSET CacheEntry /\ IsFiniteSet(ToSet(list))
           /\ Len(list) \in Nat /\ DOMAIN list = 1 .. Len(list)
           /\ \A i \in DOMAIN list : list[i] \in CacheEntry /\ list[i].at \in Nat
           /\ \A i, j \in DOMAIN list : list[i].key = list[j].key => i = j
<1>1. list \in Seq(CacheEntry) /\ Len(list) \in Nat /\ DOMAIN list = 1 .. Len(list)
  BY DEF Unrepeated
<1>2. \A i \in DOMAIN list : list[i] \in CacheEntry
  BY <1>1, ElementOfSeq
<1>3. IsFiniteSet(DOMAIN list)
  BY <1>1, FS_Interval
<1>4. ToSet(list) = {list[i] : i \in DOMAIN list}
  BY DEF ToSet
<1>5. IsFiniteSet({list[i] : i \in DOMAIN list})
  <2> DEFINE items == {list[i] : i \in DOMAIN list}
  <2>1. list \in Surjection(DOMAIN list, items)
    <3>1. list \in [DOMAIN list -> items]
      BY <1>1
    <3> QED BY <3>1 DEF Surjection
  <2> HIDE DEF items
  <2>2. IsFiniteSet(items)
    BY <1>3, <2>1, FS_Surjection
  <2> QED BY <2>2 DEF items
<1>6. \A i \in DOMAIN list : list[i].at \in Nat
  BY <1>2, CacheAssumption DEF CacheEntry
<1> QED BY <1>1, <1>2, <1>4, <1>5, <1>6 DEF Unrepeated

LEMMA PutFacts ==
    ASSUME NEW list, Unrepeated(list), NEW e \in CacheEntry
    PROVE  /\ Unrepeated(Put(list, e))
           /\ \A i \in DOMAIN Put(list, e) :
                \/ Put(list, e)[i] = e
                \/ i \in DOMAIN list /\ Put(list, e)[i] = list[i] /\ list[i].key # e.key
<1> DEFINE n == Len(list)
<1>1. /\ list \in Seq(CacheEntry) /\ n \in Nat /\ DOMAIN list = 1 .. n
      /\ \A i \in DOMAIN list : list[i] \in CacheEntry
      /\ \A i, j \in DOMAIN list : list[i].key = list[j].key => i = j
  BY ListFacts DEF Unrepeated
<1>2. CASE HasKey(list, e.key)
  <2> DEFINE new == [i \in 1 .. n |-> IF list[i].key = e.key THEN e ELSE list[i]]
  <2>1. Put(list, e) = new
    BY <1>1, <1>2 DEF Put
  <2>2. new \in [1 .. n -> CacheEntry]
    BY <1>1
  <2>3. new \in Seq(CacheEntry) /\ DOMAIN new = 1 .. n
    BY <1>1, <2>2, SeqDef
  <2>4. ASSUME NEW i \in 1 .. n
        PROVE  /\ new[i].key = list[i].key
               /\ new[i] = e \/ (new[i] = list[i] /\ list[i].key # e.key)
    <3>1. new[i] = IF list[i].key = e.key THEN e ELSE list[i]
      OBVIOUS
    <3> HIDE DEF new
    <3>2. CASE list[i].key = e.key
      <4>1. new[i] = e
        BY <3>1, <3>2
      <4> QED BY <3>2, <4>1
    <3>3. CASE list[i].key # e.key
      <4>1. new[i] = list[i]
        BY <3>1, <3>3
      <4> QED BY <3>3, <4>1
    <3> QED BY <3>2, <3>3
  <2> HIDE DEF new, n
  <2> QED BY <1>1, <2>1, <2>3, <2>4 DEF Unrepeated
<1>3. CASE ~HasKey(list, e.key)
  <2> DEFINE new == Append(list, e)
  <2>1. Put(list, e) = new
    BY <1>3 DEF Put
  <2>2. /\ new \in Seq(CacheEntry) /\ DOMAIN new = 1 .. n + 1 /\ new[n + 1] = e
        /\ \A i \in 1 .. n : new[i] = list[i]
    <3>1. /\ new \in Seq(CacheEntry) /\ Len(new) = n + 1 /\ new[n + 1] = e
          /\ \A i \in 1 .. n : new[i] = list[i]
      BY <1>1, AppendProperties
    <3> QED BY <3>1
  <2>3. \A i \in 1 .. n : list[i].key # e.key
    BY <1>1, <1>3 DEF HasKey
  <2> HIDE DEF new, n
  <2>4. \A i \in 1 .. n + 1 : i \in 1 .. n \/ i = n + 1
    BY <1>1
  <2>5. \A i, j \in 1 .. n + 1 : new[i].key = new[j].key => i = j
    BY <1>1, <2>2, <2>3, <2>4
  <2> QED BY <1>1, <2>1, <2>2, <2>3, <2>4, <2>5 DEF Unrepeated
<1> QED BY <1>2, <1>3

LEMMA WithoutFacts ==
    ASSUME NEW list, Unrepeated(list), NEW keys
    PROVE  /\ Unrepeated(Without(list, keys))
           /\ ToSet(Without(list, keys)) = {e \in ToSet(list) : e.key \notin keys}
           /\ \A dates : Dated(list, dates) => Dated(Without(list, keys), dates)
<1> DEFINE S == {i \in DOMAIN list : list[i].key \notin keys}
           rest == Picked(list, S)
<1>1. list \in Seq(CacheEntry) /\ S \in SUBSET DOMAIN list
  BY DEF Unrepeated
<1>2. rest = Without(list, keys)
  BY DEF Without
<1>8. \A i : i \in S <=> i \in DOMAIN list /\ list[i].key \notin keys
  OBVIOUS
<1> HIDE DEF S
<1>3. /\ rest \in Seq(CacheEntry)
      /\ \A i \in DOMAIN rest : InOrder(S)[i] \in S /\ rest[i] = list[InOrder(S)[i]]
      /\ \A i, j \in DOMAIN rest : InOrder(S)[i] = InOrder(S)[j] => i = j
      /\ \A k \in S : \E i \in DOMAIN rest : rest[i] = list[k]
  BY <1>1, PickedFacts
<1> HIDE DEF rest
<1>4. \A i \in DOMAIN rest : InOrder(S)[i] \in DOMAIN list /\ rest[i].key \notin keys
  BY <1>3, <1>8
<1>5. Unrepeated(rest)
  <2>1. \A i, j \in DOMAIN list : list[i].key = list[j].key => i = j
    BY DEF Unrepeated
  <2>2. \A i, j \in DOMAIN rest : rest[i].key = rest[j].key => InOrder(S)[i] = InOrder(S)[j]
    BY <1>3, <1>4, <2>1
  <2> QED BY <1>3, <2>2 DEF Unrepeated
<1>6. ToSet(rest) = {e \in ToSet(list) : e.key \notin keys}
  <2>1. ToSet(rest) = {rest[i] : i \in DOMAIN rest} /\ ToSet(list) = {list[i] : i \in DOMAIN list}
    BY DEF ToSet
  <2>2. \A i \in DOMAIN rest : rest[i] \in ToSet(list)
    BY <1>3, <1>4, <2>1
  <2>3. \A k \in DOMAIN list : list[k].key \notin keys => list[k] \in ToSet(rest)
    BY <1>3, <1>8, <2>1
  <2> QED BY <1>4, <2>1, <2>2, <2>3
<1>7. \A dates : Dated(list, dates) => Dated(rest, dates)
  BY <1>3, <1>4 DEF Dated
<1> QED BY <1>2, <1>5, <1>6, <1>7

-----------------------------------------------------------------------------
(* The offline cache: the clean-up *)

\* What is evicted is closed towards the older entries, what is left is within
\* the limit, and what is left with the youngest that went is not.
LEMMA EvictedFacts ==
    ASSUME NEW list, Unrepeated(list), NEW limit \in Nat, NEW left, NEW gone,
           left = {e \in ToSet(list) : e.key \notin Evicted(list, limit)},
           gone = {e \in ToSet(list) : e.key \in Evicted(list, limit)}
    PROVE  /\ Total(left) <= limit
           /\ \A old \in gone, e \in left : old.at <= e.at
           /\ \A youngest \in gone :
                (\A old \in gone : old.at < youngest.at \/ old = youngest) =>
                    Total(left \cup {youngest}) > limit
<1> DEFINE rest(i) == {list[j] : j \in {i} \cup Behind(list, i)}
<1>1. /\ ToSet(list) = {list[i] : i \in DOMAIN list} /\ IsFiniteSet(ToSet(list))
      /\ ToSet(list) \in SUBSET Sized
      /\ \A i \in DOMAIN list : list[i].at \in Nat /\ i \in Nat
      /\ \A i, j \in DOMAIN list : list[i].key = list[j].key => i = j
  BY ListFacts, EntryIsSized
<1>2. ASSUME NEW i \in DOMAIN list PROVE list[i] \in gone <=> Total(rest(i)) > limit
  <2>1. list[i].key \in Evicted(list, limit) <=> Total(rest(i)) > limit
    BY <1>1 DEF Evicted
  <2> HIDE DEF rest
  <2> QED BY <1>1, <2>1
<1>3. \A i \in DOMAIN list : list[i] \in left <=> list[i] \notin gone
  BY <1>1
<1>4. (\A e \in left : \E i \in DOMAIN list : e = list[i]) /\ (\A e \in gone : \E i \in DOMAIN list : e = list[i])
  BY <1>1
<1>5. \A i \in DOMAIN list : \A x \in rest(i) : \E j \in {i} \cup Behind(list, i) : x = list[j] /\ j \in DOMAIN list
  BY DEF Behind
<1>6. \A i, j \in DOMAIN list : j \in Behind(list, i) <=>
          list[j].at > list[i].at \/ (list[j].at = list[i].at /\ j > i)
  BY DEF Behind
<1>7. \A i, j \in DOMAIN list : j \in {i} \cup Behind(list, i) => list[j] \in rest(i)
  OBVIOUS
<1>8. \A i \in DOMAIN list : rest(i) \in SUBSET ToSet(list)
  BY <1>1, <1>5
<1>9. ASSUME NEW s \in SUBSET ToSet(list), NEW t \in SUBSET s
      PROVE  Total(t) \in Nat /\ Total(s) \in Nat /\ Total(t) <= Total(s)
  <2>1. IsFiniteSet(s) /\ s \in SUBSET Sized
    BY <1>1, FS_Subset
  <2> QED BY <2>1, TotalFacts
<1>10. left \in SUBSET ToSet(list) /\ gone \in SUBSET ToSet(list)
  OBVIOUS
<1> HIDE DEF rest
<1>11. ASSUME NEW i \in DOMAIN list, NEW j \in DOMAIN list, list[i] \in gone, list[j] \in left
       PROVE  j \in Behind(list, i)
  <2>1. SUFFICES ASSUME j \notin Behind(list, i) PROVE FALSE
    OBVIOUS
  <2>2. i # j
    BY <1>3, <1>11
  <2>3. i \in Behind(list, j)
    BY <1>1, <1>6, <2>1, <2>2
  <2>4. \A k \in DOMAIN list : k \in {i} \cup Behind(list, i) => k \in Behind(list, j)
    BY <1>1, <1>6, <2>3
  <2>5. rest(i) \subseteq rest(j)
    BY <1>5, <1>7, <2>4
  <2>6. /\ Total(rest(i)) <= Total(rest(j)) /\ Total(rest(i)) > limit
        /\ Total(rest(i)) \in Nat /\ Total(rest(j)) \in Nat
    BY <1>2, <1>8, <1>9, <1>11, <2>5
  <2>7. list[j] \in gone
    BY <1>2, <2>6
  <2> QED BY <1>3, <1>11, <2>7
<1>12. Total(left) <= limit
  <2>1. CASE left = {}
    <3>1. Total({}) = 0
      BY <1>1, TotalFacts
    <3> QED BY <2>1, <3>1
  <2>2. CASE left # {}
    <3> DEFINE I == {i \in DOMAIN list : list[i] \in left}
    <3> DEFINE dates == {list[i].at : i \in I}
    <3>5. I \subseteq Nat /\ I # {} /\ dates \subseteq Nat /\ dates # {}
      BY <1>1, <1>4, <2>2
    <3>6. PICK date \in dates : \A d \in dates : ~(d < date)
      BY <3>5, LeastOne
    <3> DEFINE oldest == {i \in I : list[i].at = date}
    <3>7. oldest \subseteq Nat /\ oldest # {}
      BY <3>5, <3>6
    <3>8. PICK i \in oldest : \A j \in oldest : ~(j < i)
      BY <3>7, LeastOne
    <3>9. ASSUME NEW j \in I, j # i PROVE j \in Behind(list, i)
      <4>1. /\ list[i].at = date /\ ~(list[j].at < date) /\ list[j].at \in Nat /\ date \in Nat
            /\ i \in Nat /\ j \in Nat /\ i \in DOMAIN list /\ j \in DOMAIN list
        BY <1>1, <3>6, <3>8
      <4>2. list[j].at = date => j > i
        BY <3>8, <3>9, <4>1
      <4> QED BY <1>6, <4>1, <4>2
    <3>1. i \in I /\ \A j \in I : i = j \/ j \in Behind(list, i)
      BY <3>8, <3>9
    <3>2. left \subseteq rest(i)
      BY <1>4, <1>7, <3>1
    <3>3. Total(rest(i)) <= limit
      <4>1. Total(rest(i)) \in Nat
        BY <1>8, <1>9
      <4>2. ~(Total(rest(i)) > limit)
        BY <1>2, <1>3
      <4> QED BY <4>1, <4>2
    <3>4. Total(left) <= Total(rest(i)) /\ Total(left) \in Nat /\ Total(rest(i)) \in Nat
      BY <1>8, <1>9, <3>2
    <3> QED BY <3>3, <3>4
  <2> QED BY <2>1, <2>2
<1>13. ASSUME NEW old \in gone, NEW e \in left PROVE old.at <= e.at
  <2>1. PICK i \in DOMAIN list : old = list[i]
    BY <1>4
  <2>2. PICK j \in DOMAIN list : e = list[j]
    BY <1>4
  <2>3. j \in Behind(list, i)
    BY <1>11, <2>1, <2>2
  <2> QED BY <1>1, <1>6, <2>1, <2>2, <2>3
<1>14. ASSUME NEW youngest \in gone, \A old \in gone : old.at < youngest.at \/ old = youngest
       PROVE  Total(left \cup {youngest}) > limit
  <2>1. PICK i \in DOMAIN list : youngest = list[i]
    BY <1>4
  <2>2. ASSUME NEW k \in Behind(list, i) PROVE list[k] \in left
    <3>1. k \in DOMAIN list
      BY DEF Behind
    <3>2. k # i
      BY <1>1, <1>6, <3>1
    <3>3. list[k] # list[i]
      BY <1>1, <3>1, <3>2
    <3>4. ~(list[k].at < list[i].at)
      BY <1>1, <1>6, <3>1
    <3>5. list[k] \notin gone
      BY <1>14, <2>1, <3>3, <3>4
    <3> QED BY <1>3, <3>1, <3>5
  <2>3. rest(i) \subseteq left \cup {youngest}
    BY <1>5, <2>1, <2>2
  <2>4. left \cup {youngest} \in SUBSET ToSet(list)
    BY <1>10
  <2>5. /\ Total(rest(i)) <= Total(left \cup {youngest})
        /\ Total(rest(i)) \in Nat /\ Total(left \cup {youngest}) \in Nat
    BY <1>9, <2>3, <2>4
  <2>6. Total(rest(i)) > limit
    BY <1>2, <2>1
  <2> QED BY <2>5, <2>6
<1> QED BY <1>12, <1>13, <1>14

-----------------------------------------------------------------------------
(* The offline cache: the inductive invariant *)

\* The types, and no list makes a resource younger than it is.
CacheShape == /\ CacheTypeOK
              /\ Dated(entries, cached) /\ Dated(Contents(index), cached)
CacheInv == CacheShape /\ HitIsFresh /\ CleanupExact

LEMMA ShapeSays ==
    CacheTypeOK <=> /\ index.form \in {"absent", "torn", "whole"} /\ Unrepeated(index.data)
                    /\ caching \in BOOLEAN /\ Unrepeated(entries)
                    /\ folders \in SUBSET Keys /\ time \in 0 .. LastTime
                    /\ cached \in [Keys -> 0 .. LastTime]
BY Zenon DEF CacheTypeOK, Unrepeated

LEMMA InitCache == ASSUME CacheInit PROVE CacheInv
<1>1. 0 \in 0 .. LastTime
  BY CacheAssumption
<1>2. Unrepeated(index.data) /\ Unrepeated(entries)
  BY EmptyList DEF CacheInit, Absent
<1>3. Dated(entries, cached) /\ Dated(Contents(index), cached)
  BY EmptyList DEF CacheInit, Absent, Contents
<1>4. CacheTypeOK
  BY <1>1, <1>2, ShapeSays DEF CacheInit, Absent
<1>5. HitIsFresh /\ CleanupExact
  BY DEF CacheInit, NoReply, HitIsFresh, CleanupExact
<1> QED BY <1>3, <1>4, <1>5 DEF CacheInv, CacheShape

\* A save makes the file what the process has, or the process is gone.
LEMMA SaveShape ==
    ASSUME CacheInv, NEW list, Unrepeated(list), Dated(list, cached'), NEW info, SaveIndex(list, info),
           folders' \in SUBSET Keys, time' = time, cached' \in [Keys -> 0 .. LastTime]
    PROVE  CacheShape'
<1>1. /\ index'.form \in {"absent", "torn", "whole"} /\ Contents(index') = index'.data
      /\ index'.data \in {list, <<>>} /\ entries' \in {list, <<>>} /\ caching' \in BOOLEAN
  <2>1. CASE GoesOn(list) /\ index' = Whole(list)
    BY <2>1 DEF GoesOn, Whole, Contents
  <2>2. CASE CacheEnds /\ index' = Torn
    BY <2>2 DEF CacheEnds, Torn, Contents
  <2> QED BY <2>1, <2>2 DEF SaveIndex
<1>2. Unrepeated(<<>>) /\ Dated(<<>>, cached')
  BY EmptyList
<1>3. Unrepeated(index'.data) /\ Dated(Contents(index'), cached')
  BY <1>1, <1>2
<1>4. Unrepeated(entries') /\ Dated(entries', cached')
  BY <1>1, <1>2
<1>5. time' \in 0 .. LastTime
  BY ShapeSays DEF CacheInv, CacheShape
<1>6. CacheTypeOK'
  BY <1>1, <1>3, <1>4, <1>5, Zenon DEF CacheTypeOK, Unrepeated
<1> QED BY <1>3, <1>4, <1>6 DEF CacheShape

LEMMA CacheResourceKeeps ==
    ASSUME CacheInv, NEW key \in Keys, NEW size \in Sizes \cup {0}, CacheResource(key, size)
    PROVE  CacheInv'
<1> DEFINE e == [key |-> key, size |-> size, at |-> time]
           list == Put(entries, e)
<1>1. /\ Unrepeated(entries) /\ folders \in SUBSET Keys /\ time \in 0 .. LastTime
      /\ cached \in [Keys -> 0 .. LastTime] /\ Dated(entries, cached)
  BY ShapeSays DEF CacheInv, CacheShape
<1>2. e \in CacheEntry /\ e.key = key /\ e.at = time
  BY <1>1 DEF CacheEntry
<1>3. /\ SaveIndex(list, NoReply) /\ folders' = folders \cup {key} /\ time' = time
      /\ cached' = [cached EXCEPT ![key] = time]
  BY DEF CacheResource
<1> HIDE DEF e, list
<1>4. /\ Unrepeated(list)
      /\ \A i \in DOMAIN list : \/ list[i] = e
                                \/ i \in DOMAIN entries /\ list[i] = entries[i] /\ entries[i].key # key
  BY <1>1, <1>2, PutFacts DEF list
<1>5. /\ cached' \in [Keys -> 0 .. LastTime] /\ cached'[key] = time
      /\ \A k \in Keys : k # key => cached'[k] = cached[k]
  BY <1>1, <1>3
<1>6. Dated(list, cached')
  <2>1. \A i \in DOMAIN entries : entries[i].key \in Keys
    BY <1>1, ListFacts DEF CacheEntry
  <2>2. time <= time
    BY <1>1, CacheAssumption
  <2> QED BY <1>1, <1>2, <1>4, <1>5, <2>1, <2>2 DEF Dated
<1>7. CacheShape'
  BY <1>1, <1>3, <1>4, <1>5, <1>6, SaveShape
<1>8. (HitIsFresh /\ CleanupExact)'
  BY <1>3 DEF SaveIndex, NoReply, HitIsFresh, CleanupExact
<1> QED BY <1>7, <1>8 DEF CacheInv

LEMMA GetKeeps ==
    ASSUME CacheInv, NEW key \in Keys, NEW ttl \in Ttls \cup {DefaultTtl}, Get(key, ttl)
    PROVE  CacheInv'
<1> DEFINE info(hit) == [op |-> "get", key |-> key, ttl |-> ttl, hit |-> hit]
           list == Without(entries, {key})
<1>1. /\ Unrepeated(entries) /\ folders \in SUBSET Keys /\ time \in 0 .. LastTime /\ time \in Nat
      /\ cached \in [Keys -> 0 .. LastTime] /\ Dated(entries, cached)
  BY CacheAssumption, ShapeSays DEF CacheInv, CacheShape
<1>2. UNCHANGED <<folders, time, cached>>
  BY DEF Get
<1>3. CASE HasKey(entries, key) /\ ~(Expired(EntryOf(entries, key), ttl) \/ key \notin folders)
  <2>1. /\ reply' = info(TRUE) /\ UNCHANGED <<index, caching, entries>>
        /\ key \in folders /\ ~Expired(EntryOf(entries, key), ttl)
    BY <1>3 DEF Get
  <2>2. CacheShape'
    BY <1>2, <2>1 DEF CacheInv, CacheShape, CacheTypeOK, Contents
  <2>3. PICK i \in DOMAIN entries : EntryOf(entries, key) = entries[i] /\ entries[i].key = key
    BY <1>3 DEF HasKey, EntryOf
  <2>4. entries[i].at <= cached[key] /\ entries[i].at \in Nat /\ cached[key] \in Nat
    BY <1>1, <2>3, ListFacts, CacheAssumption DEF Dated
  <2>5. ttl \in Nat
    BY CacheAssumption
  <2>6. ttl > 0 => time - cached[key] <= ttl
    BY <1>1, <2>1, <2>3, <2>4, <2>5 DEF Expired
  <2>7. HitIsFresh'
    BY <1>2, <2>1, <2>6 DEF HitIsFresh
  <2>8. CleanupExact'
    BY <2>1 DEF CleanupExact
  <2> QED BY <2>2, <2>7, <2>8 DEF CacheInv
<1>4. CASE SaveIndex(list, info(FALSE))
  <2>1. Unrepeated(list) /\ Dated(list, cached)
    BY <1>1, WithoutFacts
  <2> HIDE DEF list
  <2>2. CacheShape'
    BY <1>1, <1>2, <1>4, <2>1, SaveShape
  <2>3. (HitIsFresh /\ CleanupExact)'
    BY <1>4 DEF SaveIndex, NoReply, HitIsFresh, CleanupExact
  <2> QED BY <2>2, <2>3 DEF CacheInv
<1>5. CASE reply' = info(FALSE) /\ UNCHANGED <<index, caching, entries>>
  <2>1. CacheShape'
    BY <1>2, <1>5 DEF CacheInv, CacheShape, CacheTypeOK, Contents
  <2>2. (HitIsFresh /\ CleanupExact)'
    BY <1>5 DEF HitIsFresh, CleanupExact
  <2> QED BY <2>1, <2>2 DEF CacheInv
<1> QED BY <1>3, <1>4, <1>5 DEF Get

LEMMA CleanupCacheKeeps ==
    ASSUME CacheInv, NEW limit \in Limits, CleanupCache(limit) PROVE CacheInv'
<1> DEFINE gone == Evicted(entries, limit)
           went == {e \in ToSet(entries) : e.key \in gone}
           left == {e \in ToSet(entries) : e.key \notin gone}
           list == Without(entries, gone)
           info == [op |-> "cleanup", limit |-> limit, gone |-> went]
<1>1. /\ Unrepeated(entries) /\ folders \in SUBSET Keys /\ limit \in Nat
      /\ cached \in [Keys -> 0 .. LastTime] /\ Dated(entries, cached)
  BY CacheAssumption, ShapeSays DEF CacheInv, CacheShape
<1>2. SaveIndex(list, info) /\ UNCHANGED <<folders, time, cached>>
  BY DEF CleanupCache
<1>3. Unrepeated(list) /\ Dated(list, cached) /\ ToSet(list) = left
  BY <1>1, WithoutFacts
<1>4. /\ Total(left) <= limit
      /\ \A old \in went, e \in left : old.at <= e.at
      /\ \A youngest \in went :
           (\A old \in went : old.at < youngest.at \/ old = youngest) =>
               Total(left \cup {youngest}) > limit
  BY <1>1, EvictedFacts
<1>9. info.op = "cleanup" /\ info.limit = limit /\ info.gone = went
  OBVIOUS
<1> HIDE DEF gone, went, left, list, info
<1>5. CacheShape'
  BY <1>1, <1>2, <1>3, SaveShape
<1>6. CASE reply' = info /\ entries' = list
  <2>1. CleanupExact'
    BY <1>3, <1>4, <1>6, <1>9 DEF CleanupExact
  <2>2. HitIsFresh'
    BY <1>6, <1>9 DEF HitIsFresh
  <2> QED BY <1>5, <2>1, <2>2 DEF CacheInv
<1>7. CASE reply' = NoReply
  <2>1. (HitIsFresh /\ CleanupExact)'
    BY <1>7 DEF NoReply, HitIsFresh, CleanupExact
  <2> QED BY <1>5, <2>1 DEF CacheInv
<1> QED BY <1>2, <1>6, <1>7 DEF SaveIndex, GoesOn

\* Every step keeps the invariant.
LEMMA NextCache == ASSUME CacheInv, [CacheNext]_cacheVars PROVE CacheInv'
<1>1. /\ index.form \in {"absent", "torn", "whole"} /\ Unrepeated(Contents(index))
      /\ Unrepeated(entries) /\ caching \in BOOLEAN
      /\ folders \in SUBSET Keys /\ time \in 0 .. LastTime /\ cached \in [Keys -> 0 .. LastTime]
      /\ Dated(entries, cached) /\ Dated(Contents(index), cached)
      /\ Unrepeated(<<>>) /\ Dated(<<>>, cached)
  BY ShapeSays, EmptyList DEF CacheInv, CacheShape, Contents
<1>2. ASSUME reply' = NoReply, UNCHANGED <<index, cached>>, time' \in 0 .. LastTime,
             entries' \in {entries, Contents(index), <<>>}, caching' \in BOOLEAN,
             folders' \in SUBSET Keys
      PROVE  CacheInv'
  <2>1. CacheTypeOK'
    <3>1. Unrepeated(entries') /\ Unrepeated(index'.data)
      BY <1>1, <1>2 DEF Contents
    <3>2. index'.form \in {"absent", "torn", "whole"} /\ cached' \in [Keys -> 0 .. LastTime]
      BY <1>1, <1>2
    <3> QED BY <1>2, <3>1, <3>2, Zenon DEF CacheTypeOK, Unrepeated
  <2>2. Dated(entries', cached') /\ Dated(Contents(index'), cached')
    BY <1>1, <1>2
  <2>3. (HitIsFresh /\ CleanupExact)'
    BY <1>2 DEF NoReply, HitIsFresh, CleanupExact
  <2> QED BY <2>1, <2>2, <2>3 DEF CacheInv, CacheShape
<1>3. CASE LoadIndex
  BY <1>1, <1>2, <1>3 DEF LoadIndex, GoesOn
<1>4. CASE CloseCache
  BY <1>1, <1>2, <1>4 DEF CloseCache, CacheEnds
<1>5. CASE TimePasses
  <2>1. time' \in 0 .. LastTime
    BY <1>1, <1>5, CacheAssumption DEF TimePasses
  <2> QED BY <1>1, <1>2, <1>5, <2>1 DEF TimePasses
<1>6. ASSUME NEW key \in Keys, LoseFolder(key) PROVE CacheInv'
  BY <1>1, <1>2, <1>6 DEF LoseFolder
<1>7. CASE UNCHANGED cacheVars
  BY <1>7 DEF cacheVars, CacheInv, CacheShape, CacheTypeOK, Contents, HitIsFresh, CleanupExact
<1> QED
  BY <1>3, <1>4, <1>5, <1>6, <1>7, CacheResourceKeeps, GetKeeps, CleanupCacheKeeps DEF CacheNext

LEMMA CacheInvariant == CacheSpec => []CacheInv
BY InitCache, NextCache, PTL DEF CacheSpec

-----------------------------------------------------------------------------
(* The offline cache: what follows for the program *)

\* The variables keep their types (offline/cache.py:60).
THEOREM CacheTypes == CacheSpec => []CacheTypeOK
<1>1. CacheInv => CacheTypeOK
  BY DEF CacheInv, CacheShape
<1> QED BY <1>1, CacheInvariant, PTL

\* A hit is of a resource that somebody cached at most ttl ago, however often
\* processes and their copies of the index came and went (cache.py:95,159).
THEOREM HitsFresh == CacheSpec => []HitIsFresh
<1>1. CacheInv => HitIsFresh
  BY DEF CacheInv
<1> QED BY <1>1, CacheInvariant, PTL

\* A clean-up that ran to its end leaves no more than its limit, has taken
\* nothing younger than what it left, and nothing that it need not take
\* (cache.py:129).
THEOREM CleanupTakesOldest == CacheSpec => []CleanupExact
<1>1. CacheInv => CleanupExact
  BY DEF CacheInv
<1> QED BY <1>1, CacheInvariant, PTL

-----------------------------------------------------------------------------
(* Loops *)

\* What a loop over N things makes of d.
Steps(D, N) == [1 .. N -> [D -> D]]
Looped(D, d, N, step, a) ==
    a \in [0 .. N -> D] /\ a[0] = d /\ \A n \in 1 .. N : a[n] = step[n][a[n - 1]]

LEMMA LoopExists ==
    ASSUME NEW D, NEW d \in D, NEW N \in Nat, NEW step \in Steps(D, N)
    PROVE  \E a : Looped(D, d, N, step, a)
<1> DEFINE Made(m, a) == a[0] = d /\ \A n \in 1 .. m : a[n] = step[n][a[n - 1]]
           S == {m \in 0 .. N : \E a \in [0 .. m -> D] : Made(m, a)}
<1>1. 0 \in S
  <2> DEFINE a == [n \in 0 .. 0 |-> d]
  <2>1. a \in [0 .. 0 -> D] /\ Made(0, a)
    OBVIOUS
  <2> HIDE DEF a, Made
  <2> QED BY <2>1
<1>2. ASSUME NEW m \in 1 .. N, m - 1 \in S PROVE m \in S
  <2>1. PICK a \in [0 .. m - 1 -> D] : Made(m - 1, a)
    BY <1>2
  <2> DEFINE b == [n \in 0 .. m |-> IF n = m THEN step[m][a[m - 1]] ELSE a[n]]
  <2>2. m - 1 \in 0 .. m - 1 /\ a[m - 1] \in D
    OBVIOUS
  <2>3. step[m][a[m - 1]] \in D
    BY <2>2 DEF Steps
  <2>4. b \in [0 .. m -> D] /\ b[0] = d /\ b[m] = step[m][a[m - 1]]
        /\ \A n \in 0 .. m - 1 : b[n] = a[n]
    BY <2>1, <2>3
  <2> HIDE DEF b
  <2>5. ASSUME NEW n \in 1 .. m PROVE b[n] = step[n][b[n - 1]]
    <3>1. CASE n = m
      BY <2>2, <2>4, <3>1
    <3>2. CASE n # m
      <4>1. n \in 1 .. m - 1 /\ n - 1 \in 0 .. m - 1 /\ n \in 0 .. m - 1
        BY <3>2
      <4>2. b[n] = a[n] /\ b[n - 1] = a[n - 1] /\ a[n] = step[n][a[n - 1]]
        BY <2>1, <2>4, <4>1
      <4> QED BY <4>2
    <3> QED BY <3>1, <3>2
  <2>6. Made(m, b) /\ m \in 0 .. N
    BY <2>4, <2>5
  <2> HIDE DEF Made
  <2> QED BY <2>4, <2>6
<1> HIDE DEF S
<1>3. 0 .. N \subseteq S
  BY <1>1, <1>2, AllOfThem
<1>4. N \in S
  BY <1>3
<1> QED BY <1>4 DEF S, Looped

-----------------------------------------------------------------------------
(* Offline packages *)

\* A resource as restoring caches it.
Fresh(key) == [key |-> key, size |-> 0, at |-> time]

\* The first n resources are in the list, as of now, and otherwise what was there.
Holds(list, order, n) ==
    /\ \A m \in 1 .. n : HasKey(list, order[m])
    /\ \A i \in DOMAIN list :
         \/ list[i].at = time /\ \E m \in 1 .. n : list[i].key = order[m]
         \/ /\ \A m \in 1 .. n : list[i].key # order[m]
            /\ \E j \in DOMAIN entries : list[i] = entries[j]

LEMMA PutHolds ==
    ASSUME NEW order, NEW n \in Nat \ {0}, NEW list, Unrepeated(list), Holds(list, order, n - 1),
           Fresh(order[n]) \in CacheEntry
    PROVE  Unrepeated(Put(list, Fresh(order[n]))) /\ Holds(Put(list, Fresh(order[n])), order, n)
<1> DEFINE e == Fresh(order[n])
           new == Put(list, e)
<1>1. e.key = order[n] /\ e.at = time
  BY DEF Fresh
<1> HIDE DEF e
<1>2. /\ Unrepeated(new)
      /\ \A i \in DOMAIN new : \/ new[i] = e
                               \/ i \in DOMAIN list /\ new[i] = list[i] /\ list[i].key # e.key
  BY PutFacts DEF e
<1>3. HasKey(new, order[n]) /\ \A key : HasKey(list, key) => HasKey(new, key)
  <2>1. list \in Seq(CacheEntry) /\ Len(list) \in Nat /\ DOMAIN list = 1 .. Len(list)
    BY ListFacts DEF Unrepeated
  <2>2. CASE HasKey(list, e.key)
    <3>1. new = [i \in DOMAIN list |-> IF list[i].key = e.key THEN e ELSE list[i]]
      BY <2>2 DEF Put
    <3>2. DOMAIN new = DOMAIN list /\ \A i \in DOMAIN list : new[i].key = list[i].key
      BY <3>1
    <3> HIDE DEF new
    <3> QED BY <1>1, <2>2, <3>2 DEF HasKey
  <2>3. CASE ~HasKey(list, e.key)
    <3>1. new = Append(list, e)
      BY <2>3 DEF Put
    <3>2. /\ DOMAIN new = 1 .. Len(list) + 1 /\ new[Len(list) + 1] = e
          /\ \A i \in 1 .. Len(list) : new[i] = list[i]
      <4>1. e \in CacheEntry
        BY DEF e
      <4> QED BY <2>1, <3>1, <4>1, AppendProperties
    <3> HIDE DEF new
    <3>3. Len(list) + 1 \in DOMAIN new /\ \A i \in DOMAIN list : i \in DOMAIN new
      BY <2>1, <3>2
    <3> QED BY <1>1, <2>1, <3>2, <3>3 DEF HasKey
  <2> QED BY <2>2, <2>3
<1> HIDE DEF new
<1>4. \A m \in 1 .. n : m = n \/ m \in 1 .. n - 1
  OBVIOUS
<1>5. n \in 1 .. n /\ \A m \in 1 .. n - 1 : m \in 1 .. n
  OBVIOUS
<1>6. \A m \in 1 .. n : HasKey(new, order[m])
  BY <1>3, <1>4 DEF Holds
<1>7. ASSUME NEW i \in DOMAIN new
      PROVE  \/ new[i].at = time /\ \E m \in 1 .. n : new[i].key = order[m]
             \/ /\ \A m \in 1 .. n : new[i].key # order[m]
                /\ \E j \in DOMAIN entries : new[i] = entries[j]
  <2>1. CASE new[i] = e
    BY <1>1, <1>5, <2>1
  <2>2. CASE i \in DOMAIN list /\ new[i] = list[i] /\ list[i].key # e.key
    BY <1>1, <1>4, <1>5, <2>2 DEF Holds
  <2> QED BY <1>2, <2>1, <2>2
<1> QED BY <1>2, <1>6, <1>7 DEF Holds, new, e

LEMMA WithKeysFacts ==
    ASSUME Unrepeated(entries), time \in 0 .. LastTime, NEW order \in Seq(Keys)
    PROVE  Unrepeated(WithKeys(order)) /\ Holds(WithKeys(order), order, Len(order))
<1> DEFINE N == Len(order)
           D == {list \in Seq(CacheEntry) : Unrepeated(list)}
           F(g) == [n \in 0 .. N |-> IF n = 0 THEN entries ELSE Put(g[n - 1], Fresh(order[n]))]
           after == CHOOSE g : g = F(g)
           step == [n \in 1 .. N |-> [list \in D |-> Put(list, Fresh(order[n]))]]
<1>1. WithKeys(order) = after[N]
  BY DEF WithKeys, Fresh
<1>2. N \in Nat /\ \A n \in 1 .. N : order[n] \in Keys
  OBVIOUS
<1> HIDE DEF N, after
<1>3. \A n \in 1 .. N : Fresh(order[n]) \in CacheEntry
  BY <1>2 DEF Fresh, CacheEntry
<1>4. entries \in D /\ \A list \in D : Unrepeated(list)
  BY DEF Unrepeated
<1>5. \A list \in D : \A n \in 1 .. N : Put(list, Fresh(order[n])) \in D
  BY <1>3, PutFacts DEF Unrepeated
<1> HIDE DEF D
<1>6. step \in Steps(D, N)
  BY <1>5 DEF Steps
<1>7. PICK a : Looped(D, entries, N, step, a)
  <2> HIDE DEF step
  <2> QED BY <1>2, <1>4, <1>6, LoopExists
<1>8. /\ a \in [0 .. N -> D] /\ a[0] = entries
      /\ \A n \in 1 .. N : a[n] = step[n][a[n - 1]]
  BY <1>7 DEF Looped
<1>9. \A n \in 1 .. N : n \in 0 .. N /\ n # 0 /\ n - 1 \in 0 .. N
  BY <1>2
<1>10. \A n \in 1 .. N : a[n] = Put(a[n - 1], Fresh(order[n]))
  BY <1>8, <1>9
<1>11. a = F(a)
  <2>1. \A n \in 0 .. N : n # 0 => n \in 1 .. N
    BY <1>2
  <2> QED BY <1>8, <1>10, <2>1
<1>12. after = F(after)
  <2> HIDE DEF F
  <2> QED BY <1>11 DEF after
<1>13. 0 \in 0 .. N /\ after[0] = entries
       /\ \A n \in 1 .. N : after[n] = Put(after[n - 1], Fresh(order[n]))
  <2>1. 0 \in 0 .. N
    BY <1>2
  <2>2. \A g : F(g)[0] = entries /\ \A n \in 1 .. N : F(g)[n] = Put(g[n - 1], Fresh(order[n]))
    BY <1>9, <2>1
  <2> HIDE DEF F
  <2> QED BY <1>12, <2>1, <2>2
<1> DEFINE S == {n \in 0 .. N : Unrepeated(after[n]) /\ Holds(after[n], order, n)}
<1>14. 0 \in S
  <2>1. \A m \in 1 .. 0 : FALSE
    OBVIOUS
  <2>2. Holds(entries, order, 0)
    BY <2>1 DEF Holds
  <2> QED BY <1>13, <2>2
<1>15. ASSUME NEW n \in 1 .. N, n - 1 \in S PROVE n \in S
  <2>1. after[n] = Put(after[n - 1], Fresh(order[n])) /\ n \in 0 .. N /\ n \in Nat \ {0}
    BY <1>2, <1>9, <1>13
  <2>2. Unrepeated(after[n - 1]) /\ Holds(after[n - 1], order, n - 1)
    BY <1>15
  <2> QED BY <1>3, <2>1, <2>2, PutHolds
<1>16. N \in S
  <2> HIDE DEF S
  <2>1. 0 .. N \subseteq S
    BY <1>2, <1>14, <1>15, AllOfThem
  <2> QED BY <1>2, <2>1
<1> QED BY <1>1, <1>16 DEF N

\* An order of a finite set has all of it.
LEMMA OrderFacts ==
    ASSUME NEW S, IsFiniteSet(S), NEW order \in SetToSeqs(S)
    PROVE  /\ order \in Seq(S) /\ Len(order) = Cardinality(S) /\ Cardinality(S) \in Nat
           /\ \A x \in S : \E i \in 1 .. Len(order) : order[i] = x
<1> DEFINE c == Cardinality(S)
<1>1. c \in Nat
  BY FS_CardinalityType
<1>2. order \in [1 .. c -> S] /\ \A i, j \in 1 .. c : i # j => order[i] # order[j]
  BY DEF SetToSeqs
<1> HIDE DEF c
<1>3. order \in Seq(S) /\ Len(order) = c
  BY <1>1, <1>2, SeqDef, LenProperties
<1>4. order \in Injection(1 .. c, S)
  BY <1>2 DEF Injection, IsInjective
<1>5. IsFiniteSet(1 .. c) /\ Cardinality(1 .. c) = c
  BY <1>1, FS_Interval
<1>6. order \in Surjection(1 .. c, S)
  BY <1>4, <1>5, FS_Injection DEF c
<1> QED BY <1>1, <1>3, <1>6 DEF Surjection, c

-----------------------------------------------------------------------------
(* Offline packages: the inductive invariant *)

Packages == [manifest : Files(Manifest), folders : SUBSET Keys]
AgreedIsPrepared == Readable /\ package.manifest.data.checksum = "agrees" => Named = prepared
ValidatedIsValid == reply.op = "validate" /\ reply.valid => Valid
RestoredIsIndexed ==
    reply.op = "restore" => Readable /\ \A key \in Named : HasKey(Contents(index), key)

PackageInv == /\ CacheInv /\ package \in Packages /\ prepared \in KeySets
              /\ AgreedIsPrepared /\ ValidatedIsValid /\ RestoredIsIndexed

\* What a package that is read is.
LEMMA ManifestFacts ==
    ASSUME package \in Packages
    PROVE  /\ package.manifest \in Files(Manifest) /\ package.folders \in SUBSET Keys
           /\ Readable => Named \in KeySets /\ package.manifest = Whole(package.manifest.data)
<1>1. package.manifest \in Files(Manifest) /\ package.folders \in SUBSET Keys
  BY DEF Packages
<1>2. Readable => \E data \in Manifest : package.manifest = Whole(data)
  BY <1>1 DEF Readable, Files, Absent, Torn
<1>3. ASSUME NEW data \in Manifest, package.manifest = Whole(data)
      PROVE  Named \in KeySets /\ package.manifest = Whole(package.manifest.data)
  <2>1. package.manifest.data = data
    BY <1>3 DEF Whole
  <2> QED BY <1>3, <2>1 DEF Named, Manifest
<1> QED BY <1>1, <1>2, <1>3

LEMMA InitPackage == ASSUME CacheInit, PackageInit PROVE PackageInv
<1>1. CacheInv
  BY InitCache
<1>2. package = [manifest |-> Absent, folders |-> {}] /\ prepared = {} /\ reply = NoReply
  BY DEF PackageInit, CacheInit
<1>3. Absent \in Files(Manifest)
  BY DEF Files
<1>4. package \in Packages
  BY <1>2, <1>3 DEF Packages
<1>5. prepared \in KeySets
  BY <1>2, FS_EmptySet DEF KeySets
<1>6. ~Readable
  BY <1>2 DEF Readable, Absent
<1> QED BY <1>1, <1>2, <1>4, <1>5, <1>6
    DEF PackageInv, AgreedIsPrepared, ValidatedIsValid, RestoredIsIndexed, NoReply

\* A step that writes no index leaves the cache as it may be.
LEMMA CacheUndisturbed ==
    ASSUME CacheInv, UNCHANGED <<index, folders, time, cached>>, caching' \in BOOLEAN,
           entries' \in {entries, <<>>}, reply'.op \notin {"get", "cleanup"}
    PROVE  CacheInv'
<1>1. /\ index.form \in {"absent", "torn", "whole"} /\ Unrepeated(Contents(index))
      /\ Unrepeated(entries) /\ folders \in SUBSET Keys /\ time \in 0 .. LastTime
      /\ cached \in [Keys -> 0 .. LastTime]
      /\ Dated(entries, cached) /\ Dated(Contents(index), cached)
      /\ Unrepeated(<<>>) /\ Dated(<<>>, cached)
  BY ShapeSays, EmptyList DEF CacheInv, CacheShape, Contents
<1>2. Unrepeated(entries') /\ Unrepeated(index'.data) /\ index'.form \in {"absent", "torn", "whole"}
  BY <1>1 DEF Contents
<1>3. folders' \in SUBSET Keys /\ time' \in 0 .. LastTime /\ cached' \in [Keys -> 0 .. LastTime]
  BY <1>1
<1>4. CacheTypeOK'
  BY <1>2, <1>3, Zenon DEF CacheTypeOK, Unrepeated
<1>5. Dated(entries', cached') /\ Dated(Contents(index'), cached')
  BY <1>1
<1>6. (HitIsFresh /\ CleanupExact)'
  BY DEF HitIsFresh, CleanupExact
<1> QED BY <1>4, <1>5, <1>6 DEF CacheInv, CacheShape

LEMMA CacheStepKeeps ==
    ASSUME PackageInv, [CacheNext]_cacheVars, UNCHANGED packageVars PROVE PackageInv'
<1>1. CacheInv' /\ package' = package /\ prepared' = prepared
  BY NextCache DEF PackageInv, packageVars
<1>2. CASE UNCHANGED cacheVars
  BY <1>1, <1>2 DEF PackageInv, cacheVars, AgreedIsPrepared, ValidatedIsValid, RestoredIsIndexed,
                    Readable, Named, Valid, Complete
<1>3. CASE CacheNext
  <2>1. reply'.op \in {"get", "cleanup", "none"}
    <3>1. CASE LoadIndex \/ CloseCache \/ TimePasses \/ \E key \in Keys : LoseFolder(key)
      BY <3>1 DEF LoadIndex, CloseCache, TimePasses, LoseFolder, NoReply
    <3>2. ASSUME NEW key \in Keys, NEW size \in Sizes \cup {0}, CacheResource(key, size)
          PROVE  reply'.op = "none"
      BY <3>2 DEF CacheResource, SaveIndex, NoReply
    <3>3. ASSUME NEW key \in Keys, NEW ttl \in Ttls \cup {DefaultTtl}, Get(key, ttl)
          PROVE  reply'.op \in {"get", "none"}
      <4> DEFINE info(hit) == [op |-> "get", key |-> key, ttl |-> ttl, hit |-> hit]
      <4>1. info(TRUE).op = "get" /\ info(FALSE).op = "get" /\ NoReply.op = "none"
        BY DEF NoReply
      <4>2. reply' = info(TRUE) \/ reply' = info(FALSE) \/ reply' = NoReply
        BY <3>3 DEF Get, SaveIndex
      <4> HIDE DEF info
      <4> QED BY <4>1, <4>2
    <3>4. ASSUME NEW limit \in Limits, CleanupCache(limit) PROVE reply'.op \in {"cleanup", "none"}
      BY <3>4 DEF CleanupCache, SaveIndex, NoReply
    <3> QED BY <1>3, <3>1, <3>2, <3>3, <3>4 DEF CacheNext
  <2>2. AgreedIsPrepared'
    BY <1>1 DEF PackageInv, AgreedIsPrepared, Readable, Named
  <2>3. ValidatedIsValid' /\ RestoredIsIndexed'
    BY <2>1 DEF ValidatedIsValid, RestoredIsIndexed
  <2> QED BY <1>1, <2>2, <2>3 DEF PackageInv
<1> QED BY <1>2, <1>3

LEMMA PrepareKeeps == ASSUME PackageInv, NEW keys \in KeySets, Prepare(keys) PROVE PackageInv'
<1>1. /\ CacheInv /\ package \in Packages /\ prepared \in KeySets /\ package.folders \in SUBSET Keys
      /\ AgreedIsPrepared
  BY ManifestFacts DEF PackageInv
<1>2. reply'.op = "none"
  BY DEF Prepare, NoReply
<1>3. CacheInv'
  <2>1. caching' \in BOOLEAN /\ entries' \in {entries, <<>>}
    BY <1>1, ShapeSays DEF Prepare, CacheEnds, CacheInv, CacheShape
  <2> QED BY <1>1, <1>2, <2>1, CacheUndisturbed DEF Prepare
<1>4. keys \subseteq Keys /\ [keys |-> keys, checksum |-> "agrees"] \in Manifest
  BY DEF KeySets, Manifest
<1>5. CASE /\ package' = [manifest |-> Whole([keys |-> keys, checksum |-> "agrees"]),
                          folders  |-> package.folders \cup keys]
           /\ prepared' = keys
  <2>1. package' \in Packages
    BY <1>1, <1>4, <1>5 DEF Packages, Files
  <2>2. Named' = keys
    BY <1>5 DEF Named, Whole
  <2> QED BY <1>2, <1>3, <1>5, <2>1, <2>2
      DEF PackageInv, AgreedIsPrepared, ValidatedIsValid, RestoredIsIndexed
<1>6. ASSUME NEW made \in SUBSET keys, package' = [package EXCEPT !.folders = @ \cup made],
             prepared' = prepared
      PROVE  PackageInv'
  <2>1. package' \in Packages /\ package'.manifest = package.manifest
    BY <1>1, <1>4, <1>6 DEF Packages
  <2>2. AgreedIsPrepared'
    BY <1>1, <1>6, <2>1 DEF AgreedIsPrepared, Readable, Named
  <2> QED BY <1>1, <1>2, <1>3, <1>6, <2>1, <2>2 DEF PackageInv, ValidatedIsValid, RestoredIsIndexed
<1>7. CASE package' = [manifest |-> Torn, folders |-> package.folders \cup keys] /\ prepared' = prepared
  <2>1. package' \in Packages
    BY <1>1, <1>4, <1>7 DEF Packages, Files
  <2>2. ~Readable'
    BY <1>7 DEF Readable, Torn
  <2> QED BY <1>1, <1>2, <1>3, <1>7, <2>1, <2>2
      DEF PackageInv, AgreedIsPrepared, ValidatedIsValid, RestoredIsIndexed
<1> QED BY <1>5, <1>6, <1>7 DEF Prepare

LEMMA ValidateKeeps == ASSUME PackageInv, Validate PROVE PackageInv'
<1>1. UNCHANGED <<package, prepared>> /\ reply'.op = "validate" /\ reply'.valid = Valid
  BY DEF Validate
<1>2. CacheInv'
  <2>1. CacheInv /\ caching \in BOOLEAN
    BY ShapeSays DEF PackageInv, CacheInv, CacheShape
  <2> QED BY <1>1, <2>1, CacheUndisturbed DEF Validate
<1>3. /\ (Readable' <=> Readable) /\ Named' = Named /\ (Valid' <=> Valid)
  BY <1>1 DEF Readable, Named, Valid, Complete
<1> QED BY <1>1, <1>2, <1>3
    DEF PackageInv, AgreedIsPrepared, ValidatedIsValid, RestoredIsIndexed

LEMMA DamageKeeps == ASSUME PackageInv, Damage PROVE PackageInv'
<1>1. UNCHANGED <<index, caching, entries, folders, time, cached, prepared>> /\ reply'.op = "none"
  BY DEF Damage, NoReply
<1>2. /\ CacheInv /\ package \in Packages /\ prepared \in KeySets /\ AgreedIsPrepared
      /\ caching \in BOOLEAN
  BY ShapeSays DEF PackageInv, CacheInv, CacheShape
<1>3. CacheInv'
  BY <1>1, <1>2, CacheUndisturbed
<1>4. ASSUME NEW key \in package.folders, package' = [package EXCEPT !.folders = @ \ {key}]
      PROVE  PackageInv'
  <2>1. package' \in Packages /\ package'.manifest = package.manifest
    BY <1>2, <1>4 DEF Packages
  <2>2. AgreedIsPrepared'
    BY <1>1, <1>2, <2>1 DEF AgreedIsPrepared, Readable, Named
  <2> QED BY <1>1, <1>2, <1>3, <2>1, <2>2 DEF PackageInv, ValidatedIsValid, RestoredIsIndexed
<1>5. ASSUME NEW keys \in KeySets, NEW checksum \in {"differs", "none"},
             package' = [package EXCEPT !.manifest = Whole([keys |-> keys, checksum |-> checksum])]
      PROVE  PackageInv'
  <2>1. [keys |-> keys, checksum |-> checksum] \in Manifest
    BY DEF Manifest
  <2>2. /\ package' \in Packages
        /\ package'.manifest = Whole([keys |-> keys, checksum |-> checksum])
    BY <1>2, <1>5, <2>1 DEF Packages, Files
  <2>3. package'.manifest.data.checksum # "agrees"
    BY <2>2 DEF Whole
  <2> QED BY <1>1, <1>2, <1>3, <2>2, <2>3
      DEF PackageInv, AgreedIsPrepared, ValidatedIsValid, RestoredIsIndexed
<1> QED BY <1>4, <1>5 DEF Damage

-----------------------------------------------------------------------------
(* Offline packages: restoring *)

\* The entries after some resources were cached, none of which is younger than
\* its key now.
LEMMA RestoredFacts ==
    ASSUME CacheInv, NEW order \in Seq(Keys), NEW dates,
           dates = [key \in Keys |-> IF key \in ToSet(order) THEN time ELSE cached[key]]
    PROVE  /\ Unrepeated(WithKeys(order)) /\ Dated(WithKeys(order), dates)
           /\ dates \in [Keys -> 0 .. LastTime]
           /\ \A key \in ToSet(order) : HasKey(WithKeys(order), key)
<1> DEFINE list == WithKeys(order)
<1>1. /\ Unrepeated(entries) /\ time \in 0 .. LastTime /\ time \in Nat
      /\ cached \in [Keys -> 0 .. LastTime] /\ Dated(entries, cached)
  BY ShapeSays, CacheAssumption DEF CacheInv, CacheShape
<1>2. Unrepeated(list) /\ Holds(list, order, Len(order))
  BY <1>1, WithKeysFacts
<1>3. ToSet(order) = {order[m] : m \in 1 .. Len(order)}
  BY DEF ToSet
<1>4. \A i \in DOMAIN list : list[i].key \in Keys
  BY <1>2, ListFacts DEF CacheEntry
<1> HIDE DEF list
<1>5. ASSUME NEW i \in DOMAIN list PROVE list[i].at <= dates[list[i].key]
  <2>1. CASE list[i].at = time /\ \E m \in 1 .. Len(order) : list[i].key = order[m]
    <3>1. list[i].key \in ToSet(order)
      BY <1>3, <2>1
    <3> QED BY <1>1, <1>4, <2>1, <3>1
  <2>2. CASE /\ \A m \in 1 .. Len(order) : list[i].key # order[m]
             /\ \E j \in DOMAIN entries : list[i] = entries[j]
    <3>1. list[i].key \notin ToSet(order)
      BY <1>3, <2>2
    <3>2. list[i].at <= cached[list[i].key]
      BY <1>1, <2>2 DEF Dated
    <3> QED BY <1>4, <3>1, <3>2
  <2> QED BY <1>2, <2>1, <2>2 DEF Holds
<1>6. \A key \in ToSet(order) : HasKey(list, key)
  BY <1>2, <1>3 DEF Holds
<1> QED BY <1>1, <1>2, <1>5, <1>6 DEF Dated, list

LEMMA RestoreKeeps == ASSUME PackageInv, Restore PROVE PackageInv'
<1>1. PICK order \in SetToSeqs(Named), done \in 0 .. Cardinality(Named) :
         LET first == SubSeq(order, 1, done)
             keys == ToSet(first)
         IN  /\ folders' = folders \cup keys
             /\ cached' = [key \in Keys |-> IF key \in keys THEN time ELSE cached[key]]
             /\ \/ /\ done = Len(order)
                   /\ GoesOn(WithKeys(first))
                   /\ index' = (IF keys = {} THEN index ELSE Whole(WithKeys(first)))
                   /\ reply' = [op |-> "restore", keys |-> keys]
                \/ /\ done > 0
                   /\ CacheEnds
                   /\ index' \in {Whole(WithKeys(first)), Torn}
                   /\ reply' = NoReply
  BY DEF Restore
<1> DEFINE first == SubSeq(order, 1, done)
           keys == ToSet(first)
           list == WithKeys(first)
<1>2. /\ CacheInv /\ package \in Packages /\ prepared \in KeySets /\ AgreedIsPrepared
      /\ Readable /\ UNCHANGED <<time, package, prepared>>
  BY DEF PackageInv, Restore
<1>3. Named \in SUBSET Keys /\ IsFiniteSet(Named)
  BY <1>2, ManifestFacts DEF KeySets
<1>4. /\ order \in Seq(Named) /\ Len(order) = Cardinality(Named) /\ Cardinality(Named) \in Nat
      /\ \A key \in Named : \E i \in 1 .. Len(order) : order[i] = key
  BY <1>3, OrderFacts
<1>5. /\ first \in Seq(Named) /\ Len(first) = done
      /\ \A i \in 1 .. done : first[i] = order[i]
  <2>1. done \in 0 .. Len(order)
    BY <1>4
  <2> QED BY <1>4, <2>1, SubSeqProperties
<1>6. first \in Seq(Keys) /\ keys = {first[i] : i \in 1 .. done} /\ keys \subseteq Named
  <2>1. first \in Seq(Keys)
    BY <1>3, <1>5
  <2>2. DOMAIN first = 1 .. done
    BY <1>5
  <2>3. keys = {first[i] : i \in 1 .. done}
    BY <2>2 DEF ToSet
  <2>4. \A i \in 1 .. done : first[i] \in Named
    BY <1>5, <2>2, ElementOfSeq
  <2> HIDE DEF first, keys
  <2> QED BY <2>1, <2>3, <2>4
<1>7. /\ folders' = folders \cup keys
      /\ cached' = [key \in Keys |-> IF key \in keys THEN time ELSE cached[key]]
      /\ \/ /\ done = Len(order) /\ GoesOn(list)
            /\ index' = (IF keys = {} THEN index ELSE Whole(list))
            /\ reply' = [op |-> "restore", keys |-> keys]
         \/ CacheEnds /\ index' \in {Whole(list), Torn} /\ reply' = NoReply
  BY <1>1
<1>8. PICK dates : dates = [key \in Keys |-> IF key \in keys THEN time ELSE cached[key]]
  OBVIOUS
<1>9. /\ Unrepeated(list) /\ Dated(list, dates) /\ dates \in [Keys -> 0 .. LastTime]
      /\ \A key \in keys : HasKey(list, key)
  BY <1>2, <1>6, <1>8, RestoredFacts
<1>10. cached' = dates
  BY <1>7, <1>8
<1>11. /\ index.form \in {"absent", "torn", "whole"} /\ Unrepeated(Contents(index))
       /\ folders \in SUBSET Keys /\ time \in 0 .. LastTime /\ cached \in [Keys -> 0 .. LastTime]
       /\ Dated(Contents(index), cached) /\ Unrepeated(<<>>) /\ Dated(<<>>, dates)
  BY <1>2, ShapeSays, EmptyList DEF CacheInv, CacheShape, Contents
<1>12. keys = {} => dates = cached
  BY <1>8, <1>11
<1>13. done = Len(order) => keys = Named
  BY <1>4, <1>5, <1>6
<1> HIDE DEF first, keys, list
<1>14. /\ index'.form \in {"absent", "torn", "whole"}
       /\ Unrepeated(Contents(index')) /\ Dated(Contents(index'), dates)
  <2>1. CASE index' = Whole(list) \/ index' = Torn
    BY <1>9, <1>11, <2>1 DEF Whole, Torn, Contents
  <2>2. CASE index' = index /\ keys = {}
    BY <1>11, <1>12, <2>2
  <2> QED BY <1>7, <2>1, <2>2
<1>15. caching' \in BOOLEAN /\ Unrepeated(entries') /\ Dated(entries', dates)
  BY <1>7, <1>9, <1>11 DEF GoesOn, CacheEnds
<1>16. folders' \in SUBSET Keys /\ time' \in 0 .. LastTime /\ cached' \in [Keys -> 0 .. LastTime]
  BY <1>2, <1>3, <1>6, <1>7, <1>9, <1>10, <1>11
<1>17. CacheShape'
  <2>1. Unrepeated(index'.data)
    BY <1>14 DEF Contents
  <2>2. CacheTypeOK'
    BY <1>14, <1>15, <1>16, <2>1, Zenon DEF CacheTypeOK, Unrepeated
  <2> QED BY <1>10, <1>14, <1>15, <2>2 DEF CacheShape
<1>18. CacheInv'
  <2>1. reply'.op \in {"restore", "none"}
    BY <1>7 DEF NoReply
  <2> QED BY <1>17, <2>1 DEF CacheInv, HitIsFresh, CleanupExact
<1>19. Readable' /\ Named' = Named /\ (AgreedIsPrepared)'
  BY <1>2 DEF Readable, Named, AgreedIsPrepared
<1>20. RestoredIsIndexed'
  <2>1. CASE reply' = NoReply
    BY <2>1 DEF NoReply, RestoredIsIndexed
  <2>2. CASE done = Len(order) /\ index' = (IF keys = {} THEN index ELSE Whole(list))
    <3>1. \A key \in Named : HasKey(Contents(index'), key)
      <4>1. CASE keys = {}
        BY <1>13, <2>2, <4>1
      <4>2. CASE keys # {}
        <5>1. Contents(index') = list
          BY <2>2, <4>2 DEF Whole, Contents
        <5> QED BY <1>9, <1>13, <2>2, <5>1
      <4> QED BY <4>1, <4>2
    <3> QED BY <1>19, <3>1 DEF RestoredIsIndexed
  <2> QED BY <1>7, <2>1, <2>2
<1>21. ValidatedIsValid'
  BY <1>7 DEF NoReply, ValidatedIsValid
<1> QED BY <1>2, <1>18, <1>19, <1>20, <1>21 DEF PackageInv

\* Every step keeps the invariant.
LEMMA NextPackage ==
    ASSUME PackageInv, [PackageNext]_<<cacheVars, packageVars>> PROVE PackageInv'
<1>1. CASE UNCHANGED <<cacheVars, packageVars>>
  BY <1>1, CacheStepKeeps
<1>2. CASE CacheNext /\ UNCHANGED packageVars
  BY <1>2, CacheStepKeeps
<1> QED BY <1>1, <1>2, PrepareKeeps, ValidateKeeps, RestoreKeeps, DamageKeeps DEF PackageNext

LEMMA PackageInvariant == PackageSpec => []PackageInv
BY InitPackage, NextPackage, PTL DEF PackageSpec

-----------------------------------------------------------------------------
(* Offline packages: what follows for the program *)

\* The variables keep their types (offline/manager.py:60).
THEOREM PackageTypes == PackageSpec => []PackageTypeOK
<1>1. PackageInv => PackageTypeOK
  BY DEF PackageInv, CacheInv, CacheShape, PackageTypeOK, Packages
<1> QED BY <1>1, PackageInvariant, PTL

\* A package with a checksum that validates is the one that was prepared
\* last, whatever was interrupted or damaged since, and what is restored from
\* it is in the index (manager.py:151,129).
THEOREM ValidatedIsPrepared == PackageSpec => []ValidIsPrepared
<1>1. ASSUME PackageInv, Checksummed, Valid PROVE Named = prepared
  <2>1. package.manifest \in Files(Manifest)
    BY <1>1, ManifestFacts DEF PackageInv
  <2>2. \E data \in Manifest : package.manifest = Whole(data)
    BY <1>1, <2>1 DEF Checksummed, Readable, Files, Absent, Torn
  <2>3. package.manifest.data.checksum \in {"agrees", "differs", "none"}
    BY <2>2 DEF Whole, Manifest
  <2> QED BY <1>1, <2>3 DEF PackageInv, AgreedIsPrepared, Checksummed, Valid
<1>2. PackageInv => ValidIsPrepared
  BY <1>1 DEF PackageInv, ValidatedIsValid, RestoredIsIndexed, ValidIsPrepared
<1> QED BY <1>2, PackageInvariant, PTL

-----------------------------------------------------------------------------
(* The load balancer: the best of a list *)

\* A strict order of the numbers up to n, in which those of which neither is
\* better than the other are alike to all the rest.
Ranking(n, R) ==
    /\ \A i \in 1 .. n : <<i, i>> \notin R
    /\ \A i, j, k \in 1 .. n : <<i, j>> \in R /\ <<j, k>> \in R => <<i, k>> \in R
    /\ \A i, j, k \in 1 .. n : <<i, k>> \in R => <<i, j>> \in R \/ <<j, k>> \in R

\* Then there is a best one that is better than all before it.
LEMMA FirstOfBest ==
    ASSUME NEW n \in Nat, n > 0, NEW R, Ranking(n, R)
    PROVE  \E i \in 1 .. n : /\ \A j \in 1 .. n : <<j, i>> \notin R
                             /\ \A j \in 1 .. i - 1 : <<i, j>> \in R
<1> DEFINE N == n - 1
           S == {m \in 0 .. N : \E i \in 1 .. m + 1 : \A j \in 1 .. m + 1 : <<j, i>> \notin R}
<1>1. N \in Nat /\ N + 1 = n
  OBVIOUS
<1>2. 0 \in S
  BY DEF Ranking
<1>3. ASSUME NEW m \in 1 .. N, m - 1 \in S PROVE m \in S
  <2>1. PICK i \in 1 .. m : \A j \in 1 .. m : <<j, i>> \notin R
    <3>1. (m - 1) + 1 = m
      OBVIOUS
    <3> QED BY <1>3, <3>1
  <2>2. i \in 1 .. n /\ m + 1 \in 1 .. n /\ 1 .. m \subseteq 1 .. n /\ i \in 1 .. m + 1
    OBVIOUS
  <2>3. \A j \in 1 .. m + 1 : j \in 1 .. m \/ j = m + 1
    OBVIOUS
  <2>4. CASE <<m + 1, i>> \in R
    <3>1. \A j \in 1 .. m + 1 : <<j, m + 1>> \notin R
      BY <2>1, <2>2, <2>3, <2>4 DEF Ranking
    <3> QED BY <3>1
  <2>5. CASE <<m + 1, i>> \notin R
    <3>1. \A j \in 1 .. m + 1 : <<j, i>> \notin R
      BY <2>1, <2>3, <2>5
    <3> QED BY <2>2, <3>1
  <2> QED BY <2>4, <2>5
<1> HIDE DEF S
<1>4. 0 .. N \subseteq S
  BY <1>1, <1>2, <1>3, AllOfThem
<1>5. N \in S
  BY <1>1, <1>4
<1> DEFINE T == {i \in 1 .. n : \A j \in 1 .. n : <<j, i>> \notin R}
<1>6. T \subseteq Nat /\ T # {}
  BY <1>1, <1>5 DEF S
<1>7. PICK i \in T : \A j \in T : ~(j < i)
  BY <1>6, LeastOne
<1>8. ASSUME NEW j \in 1 .. i - 1 PROVE <<i, j>> \in R
  <2>1. j \in 1 .. n /\ j < i /\ i \in 1 .. n
    BY <1>7
  <2>2. j \notin T
    BY <1>7, <2>1
  <2>3. PICK k \in 1 .. n : <<k, j>> \in R
    BY <2>1, <2>2
  <2>4. <<k, i>> \notin R
    BY <1>7
  <2> QED BY <2>1, <2>3, <2>4 DEF Ranking
<1> QED BY <1>7, <1>8

\* Products grow with their factors.
LEMMA Grows ==
    ASSUME NEW a \in Int, NEW b \in Int, NEW m \in Nat, m > 0
    PROVE  (a > b <=> a * m > b * m) /\ (a <= b <=> a * m <= b * m)
OBVIOUS

\* Heavier compares fractions.
LEMMA CrossMultiplied ==
    ASSUME NEW p \in Nat, NEW q \in Nat, NEW r \in Nat,
           NEW a \in Nat, NEW b \in Nat, NEW c \in Nat, a > 0, b > 0, c > 0
    PROVE  /\ p * b > q * a /\ q * c > r * b => p * c > r * a
           /\ p * b <= q * a /\ q * c <= r * b => p * c <= r * a
<1>1. /\ p * b \in Int /\ q * a \in Int /\ q * c \in Int /\ r * b \in Int
      /\ p * c \in Int /\ r * a \in Int
  OBVIOUS
<1>2. (p * b) * c = (p * c) * b /\ (q * a) * c = (q * c) * a /\ (r * b) * a = (r * a) * b
  OBVIOUS
<1>3. (p * b > q * a <=> (p * b) * c > (q * a) * c) /\ (p * b <= q * a <=> (p * b) * c <= (q * a) * c)
  BY <1>1, Grows
<1>4. (q * c > r * b <=> (q * c) * a > (r * b) * a) /\ (q * c <= r * b <=> (q * c) * a <= (r * b) * a)
  BY <1>1, Grows
<1>5. (p * c > r * a <=> (p * c) * b > (r * a) * b) /\ (p * c <= r * a <=> (p * c) * b <= (r * a) * b)
  BY <1>1, Grows
<1> DEFINE x == (p * c) * b
           y == (q * c) * a
           z == (r * a) * b
<1>6. x \in Int /\ y \in Int /\ z \in Int
  BY <1>1
<1>7. /\ p * b > q * a <=> x > y
      /\ p * b <= q * a <=> x <= y
      /\ q * c > r * b <=> y > z
      /\ q * c <= r * b <=> y <= z
      /\ p * c > r * a <=> x > z
      /\ p * c <= r * a <=> x <= z
  BY <1>2, <1>3, <1>4, <1>5
<1> HIDE DEF x, y, z
<1>8. (x > y /\ y > z => x > z) /\ (x <= y /\ y <= z => x <= z)
  BY <1>6
<1> QED BY <1>7, <1>8

-----------------------------------------------------------------------------
(* The load balancer: lists of metrics, and what is chosen from them *)

LEMMA MetricFacts ==
    ASSUME NEW m \in Metric
    PROVE  /\ m.node \in Nodes /\ m.load.percent \in Nat /\ m.load.active \in Nat
           /\ m.load.max \in Nat /\ m.load.weight \in Nat /\ Score(m) \in Nat
           /\ ~Overloaded(m) => m.load.max > 0 /\ m.load.max > m.load.active
<1>1. m.node \in Nodes /\ m.load \in Measured
  BY LoadsAssumption DEF Metric
<1>2. /\ m.load.percent \in Nat /\ m.load.active \in Nat /\ m.load.max \in Nat
      /\ m.load.weight \in Nat
  BY <1>1 DEF Measured
<1> QED BY <1>1, <1>2 DEF Score, Overloaded

LEMMA ListedFacts ==
    ASSUME NEW list, Listed(list)
    PROVE  /\ list \in Seq(Metric) /\ Len(list) \in Nat /\ DOMAIN list = 1 .. Len(list)
           /\ \A i \in DOMAIN list : list[i] \in Metric
           /\ \A i, j \in DOMAIN list : list[i].node = list[j].node => i = j
           /\ ToSet(list) = {list[i] : i \in DOMAIN list}
           /\ list # <<>> => Len(list) > 0
BY DEF Listed, ToSet

\* Some of the metrics, picked by their places.
LEMMA SomeListed ==
    ASSUME NEW list, Listed(list), NEW S \in SUBSET DOMAIN list
    PROVE  /\ Listed(Picked(list, S))
           /\ \A i \in DOMAIN Picked(list, S) : \E k \in S : Picked(list, S)[i] = list[k]
           /\ Picked(list, S) = <<>> <=> S = {}
<1> DEFINE rest == Picked(list, S)
<1>1. /\ list \in Seq(Metric)
      /\ \A i, j \in DOMAIN list : list[i].node = list[j].node => i = j
  BY ListedFacts
<1>2. /\ rest \in Seq(Metric)
      /\ \A i \in DOMAIN rest : InOrder(S)[i] \in S /\ rest[i] = list[InOrder(S)[i]]
      /\ \A i, j \in DOMAIN rest : InOrder(S)[i] = InOrder(S)[j] => i = j
      /\ rest = <<>> <=> S = {}
  BY <1>1, PickedFacts
<1> HIDE DEF rest
<1>3. Listed(rest)
  BY <1>1, <1>2 DEF Listed
<1> QED BY <1>2, <1>3 DEF rest

LEMMA FreeFacts ==
    ASSUME NEW list, Listed(list)
    PROVE  /\ Listed(Free(list)) /\ Listed(FreeOrAll(list))
           /\ \A i \in DOMAIN Free(list) :
                ~Overloaded(Free(list)[i]) /\ \E k \in DOMAIN list : Free(list)[i] = list[k]
           /\ Free(list) = <<>> => \A k \in DOMAIN list : Overloaded(list[k])
           /\ list # <<>> => FreeOrAll(list) # <<>>
<1> DEFINE S == {i \in DOMAIN list : ~Overloaded(list[i])}
<1>1. S \in SUBSET DOMAIN list /\ \A k \in DOMAIN list : k \in S <=> ~Overloaded(list[k])
  OBVIOUS
<1>2. Free(list) = Picked(list, S)
  BY DEF Free
<1> HIDE DEF S
<1>3. /\ Listed(Picked(list, S))
      /\ \A i \in DOMAIN Picked(list, S) : \E k \in S : Picked(list, S)[i] = list[k]
      /\ Picked(list, S) = <<>> <=> S = {}
  BY <1>1, SomeListed
<1> QED BY <1>1, <1>2, <1>3 DEF FreeOrAll

\* A choice that the balancer may make: a node it knows, overloaded only when all are.
Eligible(list, m) ==
    (\E i \in DOMAIN list : m = list[i]) /\ (Overloaded(m) => \A i \in DOMAIN list : Overloaded(list[i]))

LEMMA FreeOrAllEligible ==
    ASSUME NEW list, Listed(list), NEW i \in DOMAIN FreeOrAll(list)
    PROVE  Eligible(list, FreeOrAll(list)[i])
<1>1. CASE Free(list) = <<>>
  BY <1>1, FreeFacts DEF FreeOrAll, Eligible
<1>2. CASE Free(list) # <<>>
  BY <1>2, FreeFacts DEF FreeOrAll, Eligible
<1> QED BY <1>1, <1>2

LEMMA LeastLoadedEligible ==
    ASSUME NEW list, Listed(list), list # <<>> PROVE Eligible(list, LeastLoaded(list))
<1> DEFINE L == FreeOrAll(list)
           n == Len(L)
           R == {p \in (1 .. n) \X (1 .. n) : Score(L[p[1]]) < Score(L[p[2]])}
<1>1. Listed(L) /\ L # <<>>
  BY FreeFacts
<1>2. n \in Nat /\ n > 0 /\ DOMAIN L = 1 .. n /\ \A i \in 1 .. n : Score(L[i]) \in Nat
  BY <1>1, ListedFacts, MetricFacts
<1>3. \A i, j \in 1 .. n : <<i, j>> \in R <=> Score(L[i]) < Score(L[j])
  OBVIOUS
<1>4. LeastLoaded(list) = L[CHOOSE i \in DOMAIN L : /\ \A j \in DOMAIN L : ~(Score(L[j]) < Score(L[i]))
                                                    /\ \A j \in 1 .. i - 1 : Score(L[i]) < Score(L[j])]
  BY DEF LeastLoaded, FirstBest
<1> HIDE DEF R, L, n
<1>5. Ranking(n, R)
  BY <1>2, <1>3 DEF Ranking
<1>6. PICK i \in 1 .. n : /\ \A j \in 1 .. n : <<j, i>> \notin R
                          /\ \A j \in 1 .. i - 1 : <<i, j>> \in R
  BY <1>2, <1>5, FirstOfBest
<1>9. \A j \in 1 .. i - 1 : j \in 1 .. n
  BY <1>2
<1>7. /\ \A j \in DOMAIN L : ~(Score(L[j]) < Score(L[i]))
      /\ \A j \in 1 .. i - 1 : Score(L[i]) < Score(L[j])
  BY <1>2, <1>3, <1>6, <1>9
<1>8. \E k \in DOMAIN L : LeastLoaded(list) = L[k]
  BY <1>2, <1>4, <1>7
<1> QED BY <1>8, FreeOrAllEligible DEF L

LEMMA WeightedCapacityEligible ==
    ASSUME NEW list, Listed(list), list # <<>> PROVE Eligible(list, WeightedCapacity(list))
<1>1. CASE Free(list) = <<>>
  <2> DEFINE n == Len(list)
             Weight(i) == list[i].load.weight
             R == {p \in (1 .. n) \X (1 .. n) : Weight(p[1]) > Weight(p[2])}
  <2>1. n \in Nat /\ n > 0 /\ DOMAIN list = 1 .. n /\ \A i \in 1 .. n : Weight(i) \in Nat
    BY ListedFacts, MetricFacts
  <2>2. \A i, j \in 1 .. n : <<i, j>> \in R <=> Weight(i) > Weight(j)
    OBVIOUS
  <2>3. WeightedCapacity(list) =
          list[CHOOSE i \in DOMAIN list :
                 /\ \A j \in DOMAIN list : ~(Weight(j) > Weight(i))
                 /\ \A j \in 1 .. i - 1 : Weight(i) > Weight(j)]
    BY <1>1 DEF WeightedCapacity, FirstBest
  <2> HIDE DEF R, n, Weight
  <2>4. Ranking(n, R)
    BY <2>1, <2>2 DEF Ranking
  <2>5. PICK i \in 1 .. n : /\ \A j \in 1 .. n : <<j, i>> \notin R
                            /\ \A j \in 1 .. i - 1 : <<i, j>> \in R
    BY <2>1, <2>4, FirstOfBest
  <2>8. \A j \in 1 .. i - 1 : j \in 1 .. n
    BY <2>1
  <2>6. /\ \A j \in DOMAIN list : ~(Weight(j) > Weight(i))
        /\ \A j \in 1 .. i - 1 : Weight(i) > Weight(j)
    BY <2>1, <2>2, <2>5, <2>8
  <2>7. \E k \in DOMAIN list : WeightedCapacity(list) = list[k]
    BY <2>1, <2>3, <2>6
  <2> QED BY <1>1, <2>7, FreeFacts DEF Eligible
<1>2. CASE Free(list) # <<>>
  <2> DEFINE L == Free(list)
             n == Len(L)
             Room(i) == (L[i].load.max - L[i].load.active) * L[i].load.weight
             R == {p \in (1 .. n) \X (1 .. n) : Room(p[1]) * L[p[2]].load.max > Room(p[2]) * L[p[1]].load.max}
  <2>1. Listed(L) /\ L # <<>>
    BY <1>2, FreeFacts
  <2>2. n \in Nat /\ n > 0 /\ DOMAIN L = 1 .. n
    BY <2>1, ListedFacts
  <2>3. ASSUME NEW i \in 1 .. n PROVE Room(i) \in Nat /\ L[i].load.max \in Nat /\ L[i].load.max > 0
    <3>1. /\ L[i].load.max \in Nat /\ L[i].load.active \in Nat /\ L[i].load.weight \in Nat
          /\ L[i].load.max > L[i].load.active /\ L[i].load.max > 0
      BY <2>1, <2>2, ListedFacts, MetricFacts, FreeFacts
    <3>2. L[i].load.max - L[i].load.active \in Nat
      BY <3>1
    <3> QED BY <3>1, <3>2
  <2>4. \A i, j \in 1 .. n : <<i, j>> \in R <=> Room(i) * L[j].load.max > Room(j) * L[i].load.max
    OBVIOUS
  <2>5. WeightedCapacity(list) =
          L[CHOOSE i \in DOMAIN L :
              /\ \A j \in DOMAIN L : ~(Room(j) * L[i].load.max > Room(i) * L[j].load.max)
              /\ \A j \in 1 .. i - 1 : Room(i) * L[j].load.max > Room(j) * L[i].load.max]
    BY <1>2 DEF WeightedCapacity, FirstBest, Heavier
  <2> HIDE DEF R, L, n, Room
  <2>6. Ranking(n, R)
    <3>1. \A i \in 1 .. n : <<i, i>> \notin R
      BY <2>3, <2>4
    <3>2. ASSUME NEW i \in 1 .. n, NEW j \in 1 .. n, NEW k \in 1 .. n
          PROVE  /\ <<i, j>> \in R /\ <<j, k>> \in R => <<i, k>> \in R
                 /\ <<i, k>> \in R => <<i, j>> \in R \/ <<j, k>> \in R
      <4> DEFINE p == Room(i)
                 q == Room(j)
                 r == Room(k)
                 a == L[i].load.max
                 b == L[j].load.max
                 c == L[k].load.max
      <4>1. p \in Nat /\ q \in Nat /\ r \in Nat /\ a \in Nat /\ b \in Nat /\ c \in Nat
        BY <2>3
      <4>2. a > 0 /\ b > 0 /\ c > 0
        BY <2>3
      <4>3. /\ <<i, j>> \in R <=> p * b > q * a
            /\ <<j, k>> \in R <=> q * c > r * b
            /\ <<i, k>> \in R <=> p * c > r * a
        BY <2>4
      <4> HIDE DEF p, q, r, a, b, c
      <4>4. /\ p * b > q * a /\ q * c > r * b => p * c > r * a
            /\ p * b <= q * a /\ q * c <= r * b => p * c <= r * a
        BY <4>1, <4>2, CrossMultiplied
      <4>5. /\ p * b \in Int /\ q * a \in Int /\ q * c \in Int
            /\ r * b \in Int /\ p * c \in Int /\ r * a \in Int
        BY <4>1
      <4> QED BY <4>3, <4>4, <4>5
    <3> QED BY <3>1, <3>2 DEF Ranking
  <2>7. PICK i \in 1 .. n : /\ \A j \in 1 .. n : <<j, i>> \notin R
                            /\ \A j \in 1 .. i - 1 : <<i, j>> \in R
    BY <2>2, <2>6, FirstOfBest
  <2>8. /\ \A j \in DOMAIN L : ~(Room(j) * L[i].load.max > Room(i) * L[j].load.max)
        /\ \A j \in 1 .. i - 1 : Room(i) * L[j].load.max > Room(j) * L[i].load.max
    <3>1. \A j \in 1 .. i - 1 : j \in 1 .. n
      BY <2>2
    <3> QED BY <2>2, <2>4, <2>7, <3>1
  <2>9. \E k \in DOMAIN L : WeightedCapacity(list) = L[k]
    BY <2>2, <2>5, <2>8
  <2> QED BY <2>9, FreeFacts DEF Eligible, L
<1> QED BY <1>1, <1>2

\* The node that a session has: one that is not overloaded, and it is chosen.
LEMMA PreferredFacts ==
    ASSUME NEW list, Listed(list), NEW session, Preferred(list, session) # <<>>
    PROVE  /\ Eligible(list, Preferred(list, session)[1])
           /\ session \in DOMAIN affinity /\ Preferred(list, session)[1].node = affinity[session]
<1> DEFINE S == {i \in DOMAIN list : /\ session \in DOMAIN affinity
                                     /\ list[i].node = affinity[session]
                                     /\ ~Overloaded(list[i])}
<1>1. /\ S \in SUBSET DOMAIN list
      /\ \A k \in S : /\ session \in DOMAIN affinity /\ list[k].node = affinity[session]
                      /\ ~Overloaded(list[k])
  OBVIOUS
<1>2. Preferred(list, session) = Picked(list, S)
  BY DEF Preferred
<1> HIDE DEF S
<1>3. Listed(Picked(list, S)) /\ \A i \in DOMAIN Picked(list, S) : \E k \in S : Picked(list, S)[i] = list[k]
  BY <1>1, SomeListed
<1>4. 1 \in DOMAIN Picked(list, S)
  BY <1>2, <1>3, ListedFacts
<1> QED BY <1>1, <1>2, <1>3, <1>4 DEF Eligible

LEMMA PreferredIsThere ==
    ASSUME NEW list, Listed(list), NEW session \in DOMAIN affinity, NEW k \in DOMAIN list,
           list[k].node = affinity[session], ~Overloaded(list[k])
    PROVE  Preferred(list, session) # <<>>
BY SomeListed DEF Preferred

-----------------------------------------------------------------------------
(* The load balancer: turns *)

\* From the place p on, round the list, k comes before j.
Before(p, k, j) == (k >= p /\ j < p) \/ ((k >= p <=> j >= p) /\ k < j)
NextPlace(choices, length) == (choices % length) + 1

\* There are no more turns than choices, and of the available nodes those from
\* the next place on have had as many as each other, the rest one more.
InTurns(F, p, low, t) ==
    \A j \in DOMAIN F : /\ t[F[j].node] \in {low, low + 1}
                        /\ \A k \in DOMAIN F :
                             t[F[j].node] = low + 1 /\ t[F[k].node] = low => Before(p, k, j)
Fair(list, choices, t) ==
    /\ \A n \in Nodes : t[n] <= choices
    /\ \E low \in Nat : InTurns(FreeOrAll(list), NextPlace(choices, Len(FreeOrAll(list))), low, t)

\* Nobody has had a turn.
LEMMA NoTurnsFair ==
    ASSUME NEW list, Listed(list), NEW choices \in Nat PROVE Fair(list, choices, NoTurns)
<1>1. \A n \in Nodes : NoTurns[n] = 0
  BY DEF NoTurns
<1>2. \A j \in DOMAIN FreeOrAll(list) : FreeOrAll(list)[j].node \in Nodes
  BY FreeFacts, ListedFacts, MetricFacts
<1>3. InTurns(FreeOrAll(list), NextPlace(choices, Len(FreeOrAll(list))), 0, NoTurns)
  <2> DEFINE F == FreeOrAll(list)
  <2>1. \A j \in DOMAIN F : NoTurns[F[j].node] = 0
    BY <1>1, <1>2
  <2> HIDE DEF F
  <2>2. ~(0 = 0 + 1)
    OBVIOUS
  <2> QED BY <2>1, <2>2 DEF InTurns, F
<1> QED BY <1>1, <1>3 DEF Fair

\* The place moves on by one, round the list.
LEMMA PlaceFacts ==
    ASSUME NEW choices \in Nat, NEW length \in Nat, length > 0
    PROVE  /\ NextPlace(choices, length) \in 1 .. length
           /\ NextPlace(choices + 1, length) =
                IF NextPlace(choices, length) = length THEN 1 ELSE NextPlace(choices, length) + 1
<1>1. choices % length \in 0 .. length - 1
  BY DEF NextPlace
<1>2. (choices + 1) % length = IF choices % length = length - 1 THEN 0 ELSE (choices % length) + 1
  <2> DEFINE d == choices \div length
             r == choices % length
  <2>5. choices = length * d + r
    OBVIOUS
  <2>6. d \in Nat
    OBVIOUS
  <2>1. choices = length * d + r /\ d \in Nat /\ r \in 0 .. length - 1
    BY <1>1, <2>5, <2>6
  <2> HIDE DEF d, r
  <2>2. choices + 1 = length * d + (r + 1)
    BY <2>1
  <2>3. CASE r = length - 1
    <3>1. choices + 1 = length * (d + 1) + 0
      BY <2>1, <2>2, <2>3
    <3>2. (choices + 1) % length = 0
      BY <3>1, <2>1
    <3> QED BY <2>3, <3>2 DEF r
  <2>4. CASE r # length - 1
    <3>1. r + 1 \in 0 .. length - 1
      BY <2>1, <2>4
    <3>2. (choices + 1) % length = r + 1
      BY <2>1, <2>2, <3>1
    <3> QED BY <2>4, <3>2 DEF r
  <2> QED BY <2>3, <2>4
<1> DEFINE r == choices % length
           s == (choices + 1) % length
<1>3. r \in 0 .. length - 1 /\ s = IF r = length - 1 THEN 0 ELSE r + 1
  BY <1>1, <1>2
<1>4. NextPlace(choices, length) = r + 1 /\ NextPlace(choices + 1, length) = s + 1
  BY DEF NextPlace
<1> HIDE DEF r, s
<1> QED BY <1>3, <1>4

\* Who is last in turn takes the others forward.
LEMMA BeforeMoves ==
    ASSUME NEW length \in Nat, length > 0, NEW p \in 1 .. length, NEW q,
           q = IF p = length THEN 1 ELSE p + 1
    PROVE  /\ \A k \in 1 .. length : k # p => Before(q, k, p)
           /\ \A k, j \in 1 .. length : k # p /\ j # p /\ Before(p, k, j) => Before(q, k, j)
           /\ \A k \in 1 .. length : ~Before(p, k, p)
<1>1. CASE p = length
  BY <1>1 DEF Before
<1>2. CASE p # length
  BY <1>2 DEF Before
<1> QED BY <1>1, <1>2

\* A choice in turn.
LEMMA TurnFair ==
    ASSUME NEW list, Listed(list), list # <<>>, NEW choices \in Nat, NEW t \in [Nodes -> Nat],
           Fair(list, choices, t),
           NEW node, node = FreeOrAll(list)[NextPlace(choices, Len(FreeOrAll(list)))].node
    PROVE  node \in Nodes /\ Fair(list, choices + 1, [t EXCEPT ![node] = @ + 1])
<1> DEFINE F == FreeOrAll(list)
           n == Len(F)
           p == NextPlace(choices, n)
           q == NextPlace(choices + 1, n)
           new == [t EXCEPT ![node] = @ + 1]
<1>1. Listed(F) /\ F # <<>>
  BY FreeFacts
<1>2. /\ n \in Nat /\ n > 0 /\ DOMAIN F = 1 .. n
      /\ \A i \in DOMAIN F : F[i].node \in Nodes
      /\ \A i, j \in DOMAIN F : F[i].node = F[j].node => i = j
  BY <1>1, ListedFacts, MetricFacts
<1> HIDE DEF n
<1>3. p \in 1 .. n /\ q = IF p = n THEN 1 ELSE p + 1
  BY <1>2, PlaceFacts
<1>4. node = F[p].node /\ node \in Nodes
  BY <1>2, <1>3 DEF n
<1>5. PICK low \in Nat : InTurns(F, p, low, t)
  BY DEF Fair, n
<1>6. new[node] = t[node] + 1 /\ \A m \in Nodes : m # node => new[m] = t[m]
  BY <1>4
<1>7. \A m \in Nodes : new[m] <= choices + 1
  <2>1. \A m \in Nodes : t[m] <= choices /\ t[m] \in Nat
    BY DEF Fair
  <2> HIDE DEF new
  <2> QED BY <1>4, <1>6, <2>1
<1> DEFINE T(j) == t[F[j].node]
           U(j) == new[F[j].node]
<1>8. /\ \A j \in 1 .. n : T(j) \in {low, low + 1}
      /\ \A j, k \in 1 .. n : T(j) = low + 1 /\ T(k) = low => Before(p, k, j)
      /\ U(p) = T(p) + 1 /\ \A j \in 1 .. n : j # p => U(j) = T(j)
  <2>1. \A j \in 1 .. n : j # p => F[j].node # node
    BY <1>2, <1>3, <1>4
  <2> HIDE DEF new, F, p
  <2> QED BY <1>2, <1>3, <1>4, <1>5, <1>6, <2>1 DEF InTurns
<1> HIDE DEF F, p, q, new, T, U
<1>9. /\ \A k \in 1 .. n : k # p => Before(q, k, p)
      /\ \A k, j \in 1 .. n : k # p /\ j # p /\ Before(p, k, j) => Before(q, k, j)
      /\ \A k \in 1 .. n : ~Before(p, k, p)
  BY <1>2, <1>3, BeforeMoves
<1>10. \E least \in Nat : \A j \in 1 .. n : /\ U(j) \in {least, least + 1}
                                          /\ \A k \in 1 .. n : U(j) = least + 1 /\ U(k) = least => Before(q, k, j)
  <2>1. CASE T(p) = low
    <3>1. U(p) = low + 1
      BY <1>8, <2>1
    <3>2. ASSUME NEW j \in 1 .. n PROVE U(j) \in {low, low + 1}
      BY <1>8, <3>1
    <3>3. ASSUME NEW j \in 1 .. n, NEW k \in 1 .. n, U(j) = low + 1, U(k) = low PROVE Before(q, k, j)
      <4>1. k # p
        BY <3>1, <3>3
      <4>2. CASE j = p
        BY <1>9, <4>1, <4>2
      <4>3. CASE j # p
        BY <1>8, <1>9, <3>3, <4>1, <4>3
      <4> QED BY <4>2, <4>3
    <3> QED BY <3>2, <3>3
  <2>2. CASE T(p) = low + 1
    <3>1. \A k \in 1 .. n : T(k) = low + 1
      BY <1>3, <1>8, <1>9, <2>2
    <3>2. U(p) = (low + 1) + 1 /\ \A j \in 1 .. n : j # p => U(j) = low + 1
      BY <1>8, <2>2, <3>1
    <3>3. low + 1 \in Nat
      OBVIOUS
    <3>4. \A j \in 1 .. n : U(j) \in {low + 1, (low + 1) + 1}
      BY <3>2
    <3>5. ASSUME NEW j \in 1 .. n, NEW k \in 1 .. n, U(j) = (low + 1) + 1, U(k) = low + 1
          PROVE  Before(q, k, j)
      <4>1. j = p /\ k # p
        BY <3>2, <3>5
      <4> QED BY <1>9, <4>1
    <3> QED BY <3>3, <3>4, <3>5
  <2> QED BY <1>3, <1>8, <2>1, <2>2
<1>11. PICK least \in Nat : InTurns(F, q, least, new)
  BY <1>2, <1>10 DEF InTurns, U
<1> QED BY <1>4, <1>7, <1>11 DEF Fair, F, q, n, new

-----------------------------------------------------------------------------
(* The load balancer: the inductive invariant is the types, and that the turns *)
(* are fair to the nodes in memory and to those in the file.                    *)

TurnsInv == /\ balancing => Fair(metrics, rr_index, turns)
            /\ state.form = "whole" => Fair(state.data.metrics, state.data.rr_index, turns)
BalancerInv == BalancerTypeOK /\ TurnsInv /\ ChoiceSound

LEMMA NothingListed ==
    /\ Listed(<<>>) /\ NoRing.list = <<>> /\ DOMAIN <<>> \subseteq Sessions
    /\ NoTurns \in [Nodes -> 0 .. MaxTurns] /\ 0 \in 0 .. MaxTurns
    /\ "least_loaded" \in Strategies
BY TurnsAssumption DEF Listed, NoTurns, NoRing, Strategies

LEMMA TurnsAreNat == ASSUME NEW t \in [Nodes -> 0 .. MaxTurns] PROVE t \in [Nodes -> Nat]
BY TurnsAssumption

LEMMA InitBalancer == ASSUME BalancerInit PROVE BalancerInv
<1>1. BalancerTypeOK
  BY NothingListed DEF BalancerInit, BalancerTypeOK, Absent
<1>2. TurnsInv
  BY DEF BalancerInit, TurnsInv, Absent
<1>3. ChoiceSound
  BY DEF BalancerInit, ChoiceSound
<1> QED BY <1>1, <1>2, <1>3 DEF BalancerInv

LEMMA LoadStateKeeps ==
    ASSUME BalancerInv, NEW given \in Strategies, LoadState(given) PROVE BalancerInv'
<1>1. CASE state.form = "whole"
  <2>1. /\ config' = state.data.config /\ metrics' = state.data.metrics
        /\ rr_index' = state.data.rr_index /\ UNCHANGED <<turns, state>>
        /\ object' = given /\ balancing' = TRUE /\ affinity' = <<>> /\ ring' = NoRing
    BY <1>1 DEF LoadState
  <2>2. BalancerTypeOK'
    BY <1>1, <2>1, NothingListed DEF BalancerInv, BalancerTypeOK
  <2>3. TurnsInv'
    BY <1>1, <2>1 DEF BalancerInv, TurnsInv
  <2>4. ChoiceSound'
    BY DEF LoadState, ChoiceSound
  <2> QED BY <2>2, <2>3, <2>4 DEF BalancerInv
<1>2. CASE state.form # "whole"
  <2>1. /\ config' = given /\ metrics' = <<>> /\ rr_index' = 0 /\ turns' = NoTurns
        /\ UNCHANGED state /\ object' = given /\ balancing' = TRUE
        /\ affinity' = <<>> /\ ring' = NoRing
    BY <1>2 DEF LoadState
  <2>2. BalancerTypeOK'
    BY <1>2, <2>1, NothingListed DEF BalancerInv, BalancerTypeOK
  <2>3. Fair(metrics', rr_index', turns')
    BY <2>1, NothingListed, NoTurnsFair
  <2>4. TurnsInv'
    BY <1>2, <2>1, <2>3 DEF TurnsInv
  <2>5. ChoiceSound'
    BY DEF LoadState, ChoiceSound
  <2> QED BY <2>2, <2>4, <2>5 DEF BalancerInv
<1> QED BY <1>1, <1>2

LEMMA BalancerEndsKeeps ==
    ASSUME BalancerInv, BalancerEnds, UNCHANGED turns, state' = state \/ state' = Torn
    PROVE  BalancerInv'
<1>1. BalancerTypeOK'
  <2>1. CASE state' = state
    BY <2>1, NothingListed DEF BalancerInv, BalancerTypeOK, BalancerEnds
  <2>2. CASE state' = Torn
    BY <2>2, NothingListed DEF BalancerInv, BalancerTypeOK, BalancerEnds, Torn
  <2> QED BY <2>1, <2>2
<1>2. TurnsInv'
  BY DEF BalancerInv, TurnsInv, BalancerEnds, Torn
<1>3. ChoiceSound'
  BY DEF BalancerEnds, ChoiceSound
<1> QED BY <1>1, <1>2, <1>3 DEF BalancerInv

LEMMA UpdateMetricsKeeps ==
    ASSUME BalancerInv, NEW node \in Nodes, NEW load \in Loads, UpdateMetrics(node, load)
    PROVE  BalancerInv'
<1> DEFINE m == [node |-> node, load |-> load]
           n == Len(metrics)
<1>1. /\ metrics' = IF node \in ToSet(NodeIds(metrics))
                    THEN [i \in DOMAIN metrics |-> IF metrics[i].node = node THEN m ELSE metrics[i]]
                    ELSE Append(metrics, m)
      /\ turns' = NoTurns /\ balancing
      /\ UNCHANGED <<state, balancing, config, object, rr_index, affinity, ring>>
  BY DEF UpdateMetrics
<1>2. m \in Metric /\ m.node = node
  BY DEF Metric
<1>3. /\ Listed(metrics) /\ n \in Nat /\ DOMAIN metrics = 1 .. n /\ metrics \in Seq(Metric)
      /\ \A i \in 1 .. n : metrics[i] \in Metric
      /\ \A i, j \in 1 .. n : metrics[i].node = metrics[j].node => i = j
  BY ListedFacts DEF BalancerInv, BalancerTypeOK
<1>4. node \in ToSet(NodeIds(metrics)) <=> \E i \in 1 .. n : metrics[i].node = node
  BY <1>3 DEF ToSet, NodeIds
<1> HIDE DEF m, n
<1>5. Listed(metrics')
  <2>1. CASE node \in ToSet(NodeIds(metrics))
    <3> DEFINE new == [i \in 1 .. n |-> IF metrics[i].node = node THEN m ELSE metrics[i]]
    <3>1. metrics' = new
      BY <1>1, <1>3, <2>1
    <3>2. \A i \in 1 .. n : new[i] \in Metric /\ new[i].node = metrics[i].node
      BY <1>2, <1>3
    <3>3. new \in [1 .. n -> Metric]
      BY <1>2, <1>3
    <3>4. new \in Seq(Metric) /\ DOMAIN new = 1 .. n
      BY <1>3, <3>3, SeqDef
    <3> HIDE DEF new
    <3> QED BY <1>3, <3>1, <3>2, <3>4 DEF Listed
  <2>2. CASE node \notin ToSet(NodeIds(metrics))
    <3> DEFINE new == Append(metrics, m)
    <3>1. metrics' = new
      BY <1>1, <2>2
    <3>2. /\ new \in Seq(Metric) /\ DOMAIN new = 1 .. n + 1 /\ new[n + 1] = m
          /\ \A i \in 1 .. n : new[i] = metrics[i]
      BY <1>2, <1>3, AppendProperties DEF n
    <3> HIDE DEF new
    <3>3. \A i \in 1 .. n : metrics[i].node # node
      BY <1>4, <2>2
    <3>4. \A i \in 1 .. n + 1 : i \in 1 .. n \/ i = n + 1
      BY <1>3
    <3>5. \A i, j \in 1 .. n + 1 : new[i].node = new[j].node => i = j
      BY <1>2, <1>3, <3>2, <3>3, <3>4
    <3> QED BY <3>1, <3>2, <3>5 DEF Listed
  <2> QED BY <2>1, <2>2
<1>6. BalancerTypeOK'
  BY <1>1, <1>5, NothingListed DEF BalancerInv, BalancerTypeOK
<1>7. TurnsInv'
  <2>1. /\ rr_index \in Nat
        /\ state.form = "whole" => state.data.rr_index \in Nat /\ Listed(state.data.metrics)
    BY TurnsAssumption DEF BalancerInv, BalancerTypeOK
  <2>2. PICK list : list = metrics' /\ Listed(list)
    BY <1>5
  <2>3. Fair(list, rr_index, NoTurns)
    BY <2>1, <2>2, NoTurnsFair
  <2>4. state.form = "whole" => Fair(state.data.metrics, state.data.rr_index, NoTurns)
    BY <2>1, NoTurnsFair
  <2> QED BY <1>1, <2>2, <2>3, <2>4 DEF TurnsInv
<1>8. ChoiceSound'
  BY DEF UpdateMetrics, ChoiceSound
<1> QED BY <1>6, <1>7, <1>8 DEF BalancerInv

\* What is chosen when the strategy is that of the configuration.
LEMMA ChosenFacts ==
    ASSUME BalancerInv, NEW session, metrics # <<>>, config = object
    PROVE  /\ Eligible(metrics, Chosen(session))
           /\ Sticky /\ session \in DOMAIN affinity =>
                \A k \in DOMAIN metrics :
                  metrics[k].node = affinity[session] /\ ~Overloaded(metrics[k]) =>
                      Chosen(session).node = affinity[session]
<1>1. Listed(metrics) /\ rr_index \in Nat /\ object \in Strategies
  BY TurnsAssumption DEF BalancerInv, BalancerTypeOK
<1>2. CASE Sticky
  <2>1. Chosen(session) = AffinityBased(metrics, session)
    BY <1>2 DEF Chosen, Sticky, InTurn
  <2>2. CASE Preferred(metrics, session) # <<>>
    BY <1>1, <2>1, <2>2, PreferredFacts DEF AffinityBased
  <2>3. CASE Preferred(metrics, session) = <<>>
    <3>1. Chosen(session) = LeastLoaded(metrics)
      BY <2>1, <2>3 DEF AffinityBased
    <3>2. session \in DOMAIN affinity =>
            \A k \in DOMAIN metrics : ~(metrics[k].node = affinity[session] /\ ~Overloaded(metrics[k]))
      BY <1>1, <2>3, PreferredIsThere
    <3> QED BY <1>1, <3>1, <3>2, LeastLoadedEligible
  <2> QED BY <2>2, <2>3
<1>3. CASE ~Sticky /\ InTurn
  <2> DEFINE F == FreeOrAll(metrics)
  <2>1. Chosen(session) = F[NextPlace(rr_index, Len(F))]
    BY <1>3 DEF Chosen, NextPlace
  <2>2. NextPlace(rr_index, Len(F)) \in DOMAIN F
    <3>1. Listed(F) /\ F # <<>>
      BY <1>1, FreeFacts
    <3> HIDE DEF F
    <3>2. Len(F) \in Nat /\ Len(F) > 0 /\ DOMAIN F = 1 .. Len(F)
      BY <3>1, ListedFacts
    <3> QED BY <1>1, <3>2, PlaceFacts
  <2>3. Eligible(metrics, Chosen(session))
    BY <1>1, <2>1, <2>2, FreeOrAllEligible
  <2> QED BY <1>3, <2>3
<1>4. CASE ~Sticky /\ ~InTurn
  <2>1. Chosen(session) = ByObject(metrics)
    BY <1>4 DEF Chosen
  <2>2. object \in {"least_loaded", "weighted_capacity"}
    BY <1>1, <1>4 DEF Sticky, InTurn, Strategies
  <2>3. ByObject(metrics) \in {LeastLoaded(metrics), WeightedCapacity(metrics)}
    BY <2>2 DEF ByObject
  <2> QED BY <1>1, <1>4, <2>1, <2>3, LeastLoadedEligible, WeightedCapacityEligible
<1> QED BY <1>2, <1>3, <1>4

LEMMA SelectNodeKeeps ==
    ASSUME BalancerInv, NEW session \in Sessions, SelectNode(session) PROVE BalancerInv'
<1> DEFINE chosen == Chosen(session)
<1>1. CASE BalancerEnds /\ state' = Torn /\ UNCHANGED turns
  BY <1>1, BalancerEndsKeeps
<1>2. CASE /\ rr_index' = (IF InTurn THEN rr_index + 1 ELSE rr_index)
           /\ turns' = (IF InTurn THEN [turns EXCEPT ![chosen.node] = @ + 1] ELSE turns)
           /\ affinity' = (IF Sticky /\ Preferred(metrics, session) = <<>>
                           THEN [s \in DOMAIN affinity \cup {session} |->
                                   IF s = session THEN chosen.node ELSE affinity[s]]
                           ELSE affinity)
           /\ ring' = (IF ~InTurn /\ object = "round_robin"
                       THEN [Ring(metrics) EXCEPT !.next = (@ % Len(metrics)) + 1]
                       ELSE ring)
           /\ state' = Whole(NextState)
           /\ decision' = [node |-> chosen.node, session |-> session, wait |-> Overloaded(chosen),
                           had |-> IF session \in DOMAIN affinity THEN affinity[session] ELSE "none"]
           /\ UNCHANGED <<balancing, config, object, metrics>>
  <2>1. /\ balancing /\ metrics # <<>> /\ Listed(metrics) /\ Listed(ring.list)
        /\ InTurn => rr_index < MaxTurns
        /\ rr_index \in 0 .. MaxTurns /\ rr_index \in Nat /\ rr_index' \in 0 .. MaxTurns
        /\ turns \in [Nodes -> Nat] /\ Fair(metrics, rr_index, turns)
        /\ config \in Strategies /\ object \in Strategies /\ DOMAIN affinity \subseteq Sessions
        /\ turns \in [Nodes -> 0 .. MaxTurns]
    BY <1>2, TurnsAssumption, TurnsAreNat DEF SelectNode, BalancerInv, BalancerTypeOK, TurnsInv
  <2>2. Fair(metrics, rr_index', turns') /\ turns' \in [Nodes -> 0 .. MaxTurns]
    <3>1. CASE InTurn
      <4> DEFINE F == FreeOrAll(metrics)
                 node == F[NextPlace(rr_index, Len(F))].node
      <4>1. chosen.node = node
        BY <3>1 DEF Chosen, NextPlace, InTurn, Sticky
      <4> HIDE DEF chosen
      <4>2. rr_index' = rr_index + 1 /\ turns' = [turns EXCEPT ![node] = @ + 1]
        BY <1>2, <3>1, <4>1
      <4>3. node \in Nodes /\ Fair(metrics, rr_index + 1, [turns EXCEPT ![node] = @ + 1])
        BY <2>1, TurnFair
      <4> HIDE DEF node
      <4>4. Fair(metrics, rr_index', turns')
        BY <4>2, <4>3
      <4>5. turns[node] <= rr_index /\ turns[node] \in Nat /\ rr_index + 1 <= MaxTurns
        BY <2>1, <3>1, <4>3, TurnsAssumption DEF Fair
      <4>6. turns[node] + 1 \in 0 .. MaxTurns
        BY <2>1, <4>5, TurnsAssumption
      <4> QED BY <2>1, <4>2, <4>3, <4>4, <4>6
    <3>2. CASE ~InTurn
      BY <1>2, <2>1, <3>2
    <3> QED BY <3>1, <3>2
  <2>3. Listed(ring'.list)
    <3>1. Ring(metrics).list \in {ring.list, metrics}
      BY DEF Ring
    <3>2. ring'.list \in {ring.list, Ring(metrics).list}
      BY <1>2
    <3> QED BY <2>1, <3>1, <3>2
  <2>4. DOMAIN affinity' \subseteq Sessions
    BY <1>2, <2>1
  <2>5. BalancerTypeOK'
    BY <1>2, <2>1, <2>2, <2>3, <2>4 DEF BalancerInv, BalancerTypeOK, Whole, NextState
  <2>6. TurnsInv'
    BY <1>2, <2>2 DEF TurnsInv, Whole, NextState
  <2>7. ChoiceSound'
    <3> SUFFICES ASSUME config = object PROVE ChoiceSound'
      BY <1>2 DEF ChoiceSound
    <3> DEFINE had == IF session \in DOMAIN affinity THEN affinity[session] ELSE "none"
    <3>1. decision'.node = chosen.node /\ decision'.wait = Overloaded(chosen) /\ decision'.had = had
      BY <1>2
    <3>2. /\ Eligible(metrics, chosen)
          /\ Sticky /\ session \in DOMAIN affinity =>
               \A k \in DOMAIN metrics :
                 metrics[k].node = affinity[session] /\ ~Overloaded(metrics[k]) =>
                     chosen.node = affinity[session]
      BY <2>1, ChosenFacts
    <3>3. /\ ToSet(metrics) = {metrics[i] : i \in DOMAIN metrics}
          /\ \A i, j \in DOMAIN metrics : metrics[i].node = metrics[j].node => i = j
          /\ \A i \in DOMAIN metrics : metrics[i].node # "none"
      BY <2>1, ListedFacts, MetricFacts, NodesAssumption
    <3> HIDE DEF chosen
    <3>4. PICK i \in DOMAIN metrics : chosen = metrics[i]
      BY <3>2 DEF Eligible
    <3>5. \A m \in ToSet(metrics) : m.node = chosen.node => m = chosen
      BY <3>3, <3>4
    <3>6. chosen \in ToSet(metrics) /\ (Overloaded(chosen) => \A m \in ToSet(metrics) : Overloaded(m))
      BY <3>2, <3>3, <3>4 DEF Eligible
    <3>7. Sticky => \A m \in ToSet(metrics) : m.node = had /\ ~Overloaded(m) => chosen.node = had
      BY <3>2, <3>3
    <3>8. (Sticky <=> Sticky') /\ metrics' = metrics
      BY <1>2 DEF Sticky
    <3> HIDE DEF had
    <3>9. \A m \in ToSet(metrics) : m.node = had /\ Sticky /\
             ~(\E k \in ToSet(metrics) : k.node = had /\ Overloaded(k)) => chosen.node = had
      BY <3>7
    <3>10. decision'.wait <=> \E m \in ToSet(metrics) : m.node = chosen.node /\ Overloaded(m)
      BY <3>1, <3>5, <3>6
    <3> QED BY <3>1, <3>5, <3>6, <3>8, <3>9, <3>10 DEF ChoiceSound
  <2> QED BY <2>5, <2>6, <2>7 DEF BalancerInv
<1> QED BY <1>1, <1>2 DEF SelectNode

LEMMA NextBalancer == ASSUME BalancerInv, [BalancerNext]_balancerVars PROVE BalancerInv'
<1>1. CASE CloseBalancer
  BY <1>1, BalancerEndsKeeps DEF CloseBalancer
<1>2. CASE UNCHANGED balancerVars
  BY <1>2 DEF balancerVars, BalancerInv, BalancerTypeOK, TurnsInv, ChoiceSound, Sticky
<1> QED
  BY <1>1, <1>2, LoadStateKeeps, UpdateMetricsKeeps, SelectNodeKeeps DEF BalancerNext

LEMMA BalancerInvariant == BalancerSpec => []BalancerInv
BY InitBalancer, NextBalancer, PTL DEF BalancerSpec

-----------------------------------------------------------------------------
(* The load balancer: what follows for the program *)

\* The variables keep their types (balancer.py:23).
THEOREM BalancerTypes == BalancerSpec => []BalancerTypeOK
<1>1. BalancerInv => BalancerTypeOK
  BY DEF BalancerInv
<1> QED BY <1>1, BalancerInvariant, PTL

\* Round robin is fair across processes: as long as the nodes stay as they
\* are, no available node is ahead of another by more than one choice
\* (balancer.py:50,141).
THEOREM TurnsAreFair == BalancerSpec => []TurnsFair
<1>1. ASSUME BalancerInv PROVE TurnsFair
  <2> SUFFICES ASSUME balancing, NEW a \in ToSet(NodeIds(FreeOrAll(metrics))),
                      NEW b \in ToSet(NodeIds(FreeOrAll(metrics)))
               PROVE  turns[a] - turns[b] \in -1 .. 1
    BY DEF TurnsFair
  <2> DEFINE F == FreeOrAll(metrics)
  <2>1. PICK low \in Nat : InTurns(F, NextPlace(rr_index, Len(F)), low, turns)
    BY <1>1 DEF BalancerInv, TurnsInv, Fair
  <2>2. (\E i \in DOMAIN F : a = F[i].node) /\ (\E j \in DOMAIN F : b = F[j].node)
    BY DEF ToSet, NodeIds
  <2> HIDE DEF F
  <2>3. turns[a] \in {low, low + 1} /\ turns[b] \in {low, low + 1}
    BY <2>1, <2>2 DEF InTurns
  <2> QED BY <2>3
<1> QED BY <1>1, BalancerInvariant, PTL

\* A balancer whose strategy is the one of its configuration chooses a node
\* it knows, an overloaded one only when all are, says so by a wait, and
\* keeps a session on the node it has while that can take it (balancer.py:42).
THEOREM ChoicesSound == BalancerSpec => []ChoiceSound
<1>1. BalancerInv => ChoiceSound
  BY DEF BalancerInv
<1> QED BY <1>1, BalancerInvariant, PTL

-----------------------------------------------------------------------------
(* The trace: links *)

\* The nodes, known or not, that a node is linked to.
NearTo(id, way) == {To(edges[i], way) : i \in {k \in DOMAIN edges : From(edges[k], way) = id}}

LEMMA EdgeFacts ==
    ASSUME SearchTypeOK, NEW way \in Ways
    PROVE  /\ DOMAIN edges = 1 .. Len(edges) /\ Len(edges) \in Nat
           /\ \A i \in DOMAIN edges : /\ From(edges[i], way) \in Ids /\ To(edges[i], way) \in Ids
                                      /\ edges[i] \in [source : Ids, target : Ids]
           /\ \A i, j \in DOMAIN edges :
                From(edges[i], way) = From(edges[j], way) /\ To(edges[i], way) = To(edges[j], way) =>
                    edges[i] = edges[j]
<1>1. edges \in Seq([source : Ids, target : Ids])
  BY DEF SearchTypeOK
<1>2. Len(edges) \in Nat /\ DOMAIN edges = 1 .. Len(edges)
  BY <1>1
<1>3. \A i \in DOMAIN edges : edges[i] \in [source : Ids, target : Ids]
  BY <1>1, <1>2, ElementOfSeq
<1>4. CASE way = "forward"
  BY <1>2, <1>3, <1>4 DEF From, To
<1>5. CASE way = "backward"
  BY <1>2, <1>3, <1>5 DEF From, To
<1> QED BY <1>4, <1>5 DEF Ways

\* The list of neighbours has those that a node is linked to, and no others.
LEMMA NeighborsFacts ==
    ASSUME SearchTypeOK, NEW way \in Ways, NEW id
    PROVE  /\ Neighbors(id, way) \in Seq(Ids)
           /\ ToSet(Neighbors(id, way)) = NearTo(id, way)
           /\ NearTo(id, way) \subseteq Ids
           /\ \A nb : nb \in NearTo(id, way) <=> \E i \in DOMAIN edges : Links(i, id, nb, way)
<1> DEFINE S == {i \in DOMAIN edges : From(edges[i], way) = id}
           T == [source : Ids, target : Ids]
           out == Picked(edges, S)
           list == [n \in DOMAIN out |-> To(out[n], way)]
<1>1. Neighbors(id, way) = list
  BY DEF Neighbors
<1>2. edges \in Seq(T) /\ S \in SUBSET DOMAIN edges
  BY DEF SearchTypeOK
<1>3. \A i \in DOMAIN edges : To(edges[i], way) \in Ids
  BY EdgeFacts
<1>4. NearTo(id, way) = {To(edges[i], way) : i \in S}
  BY DEF NearTo
<1>5. \A nb : nb \in NearTo(id, way) <=> \E i \in DOMAIN edges : Links(i, id, nb, way)
  BY DEF NearTo, Links
<1> HIDE DEF S, T
<1>6. /\ out \in Seq(T)
      /\ \A n \in DOMAIN out : InOrder(S)[n] \in S /\ out[n] = edges[InOrder(S)[n]]
      /\ \A k \in S : \E n \in DOMAIN out : out[n] = edges[k]
  BY <1>2, PickedFacts
<1> HIDE DEF out
<1>7. Len(out) \in Nat /\ DOMAIN out = 1 .. Len(out)
  BY <1>6
<1>8. \A n \in DOMAIN out : list[n] \in Ids /\ list[n] \in {To(edges[i], way) : i \in S}
  BY <1>2, <1>3, <1>6
<1>9. list \in [1 .. Len(out) -> Ids]
  BY <1>7, <1>8
<1>10. list \in Seq(Ids)
  BY <1>7, <1>9, SeqDef
<1>11. ToSet(list) = {To(edges[i], way) : i \in S}
  <2>1. ToSet(list) = {list[n] : n \in DOMAIN out}
    BY DEF ToSet
  <2>2. \A i \in S : \E n \in DOMAIN out : list[n] = To(edges[i], way)
    BY <1>6
  <2> QED BY <1>8, <2>1, <2>2
<1>12. NearTo(id, way) \subseteq Ids
  BY <1>2, <1>3, <1>4
<1> QED BY <1>1, <1>4, <1>5, <1>10, <1>11, <1>12

\* There is a first edge, and it is one edge for all that link the same two.
LEMMA FirstEdgeFacts ==
    ASSUME SearchTypeOK, NEW way \in Ways, NEW id, NEW nb \in NearTo(id, way)
    PROVE  FirstEdge(id, nb, way) \in DOMAIN edges /\ Links(FirstEdge(id, nb, way), id, nb, way)
<1> DEFINE T == {i \in DOMAIN edges : Links(i, id, nb, way)}
<1>1. DOMAIN edges = 1 .. Len(edges) /\ Len(edges) \in Nat
  BY EdgeFacts
<1>2. T \in SUBSET Nat /\ T # {}
  BY <1>1, NeighborsFacts
<1>3. PICK i \in T : \A k \in T : ~(k < i)
  <2> HIDE DEF T
  <2> QED BY <1>2, LeastOne
<1>4. i \in DOMAIN edges /\ Links(i, id, nb, way) /\ \A j \in 1 .. i - 1 : ~Links(j, id, nb, way)
  <2>1. \A j \in 1 .. i - 1 : j \in DOMAIN edges /\ j < i
    BY <1>1, <1>3
  <2> QED BY <1>3, <2>1
<1> HIDE DEF T
<1> QED BY <1>4 DEF FirstEdge

-----------------------------------------------------------------------------
(* The trace: the nodes within a distance *)

\* What is reached is what is linked to what is reached with a link less.
Spread(reach, way, depth) ==
    \A k \in 1 .. depth : reach[k] = reach[k - 1] \cup
        {nb \in nodes : \E id \in reach[k - 1] : nb \in NearTo(id, way)}

LEMMA WithinSpreads ==
    ASSUME SearchTypeOK, NEW way \in Ways, NEW start \in nodes, NEW depth \in Nat
    PROVE  LET reach == Within(start, way, depth)
           IN  /\ reach \in [0 .. depth -> SUBSET nodes] /\ reach[0] = {start}
               /\ Spread(reach, way, depth)
<1> DEFINE near(set) == set \cup {nb \in nodes : \E i \in DOMAIN edges :
                                    From(edges[i], way) \in set /\ To(edges[i], way) = nb}
           F(g) == [k \in 0 .. depth |-> IF k = 0 THEN {start} ELSE near(g[k - 1])]
           reach == CHOOSE g : g = F(g)
           D == SUBSET nodes
           step == [k \in 1 .. depth |-> [set \in D |-> near(set)]]
<1>1. Within(start, way, depth) = reach
  BY DEF Within
<1>2. \A set \in D : near(set) \in D /\
          near(set) = set \cup {nb \in nodes : \E id \in set : nb \in NearTo(id, way)}
  BY DEF NearTo
<1>3. {start} \in D
  OBVIOUS
<1> HIDE DEF reach, near, D
<1>4. step \in Steps(D, depth)
  BY <1>2 DEF Steps
<1>5. PICK a : Looped(D, {start}, depth, step, a)
  <2> HIDE DEF step
  <2> QED BY <1>3, <1>4, LoopExists
<1>6. /\ a \in [0 .. depth -> D] /\ a[0] = {start}
      /\ \A k \in 1 .. depth : a[k] = step[k][a[k - 1]]
  BY <1>5 DEF Looped
<1>7. \A k \in 1 .. depth : k \in 0 .. depth /\ k # 0 /\ k - 1 \in 0 .. depth
  OBVIOUS
<1>8. \A k \in 1 .. depth : a[k] = near(a[k - 1])
  BY <1>6, <1>7
<1>9. a = F(a)
  <2>1. \A k \in 0 .. depth : k # 0 => k \in 1 .. depth
    OBVIOUS
  <2> QED BY <1>6, <1>8, <2>1
<1>10. reach = F(reach)
  <2> HIDE DEF F
  <2> QED BY <1>9 DEF reach
<1>11. /\ 0 \in 0 .. depth /\ reach[0] = {start} /\ DOMAIN reach = 0 .. depth
       /\ reach = [k \in 0 .. depth |-> reach[k]]
       /\ \A k \in 1 .. depth : reach[k] = near(reach[k - 1])
  <2>1. 0 \in 0 .. depth
    OBVIOUS
  <2>2. \A g : DOMAIN F(g) = 0 .. depth /\ F(g) = [k \in 0 .. depth |-> F(g)[k]]
    OBVIOUS
  <2>3. \A g : F(g)[0] = {start} /\ \A k \in 1 .. depth : F(g)[k] = near(g[k - 1])
    BY <1>7, <2>1
  <2> HIDE DEF F
  <2> QED BY <1>10, <2>1, <2>2, <2>3
<1> DEFINE S == {k \in 0 .. depth : reach[k] \in D}
<1>12. 0 .. depth \subseteq S
  <2>1. 0 \in S
    BY <1>3, <1>11
  <2>2. \A k \in 1 .. depth : k - 1 \in S => k \in S
    BY <1>2, <1>7, <1>11
  <2> HIDE DEF S
  <2> QED BY <2>1, <2>2, AllOfThem
<1>13. \A k \in 0 .. depth : reach[k] \in D
  BY <1>12
<1>14. reach \in [0 .. depth -> D]
  BY <1>11, <1>13
<1>15. Spread(reach, way, depth)
  <2>1. ASSUME NEW k \in 1 .. depth
        PROVE  reach[k] = reach[k - 1] \cup
                   {nb \in nodes : \E id \in reach[k - 1] : nb \in NearTo(id, way)}
    <3>1. reach[k - 1] \in D /\ reach[k] = near(reach[k - 1])
      BY <1>7, <1>11, <1>13
    <3> QED BY <1>2, <3>1
  <2> QED BY <2>1 DEF Spread
<1> QED BY <1>1, <1>11, <1>14, <1>15 DEF D

\* More links reach more.
LEMMA SpreadGrows ==
    ASSUME NEW way, NEW depth \in Nat, NEW reach, Spread(reach, way, depth),
           NEW k \in 0 .. depth, NEW m \in k .. depth
    PROVE  reach[k] \subseteq reach[m]
<1> DEFINE S == {n \in 0 .. depth - k : reach[k] \subseteq reach[k + n]}
           far == depth - k
<1>1. far \in Nat /\ k + 0 = k /\ m - k \in 0 .. far /\ k + (m - k) = m
  OBVIOUS
<1>2. 0 \in S
  BY <1>1
<1>3. ASSUME NEW n \in 1 .. far, n - 1 \in S PROVE n \in S
  <2>1. k + n \in 1 .. depth /\ (k + n) - 1 = k + (n - 1) /\ n \in 0 .. far
    BY <1>1
  <2>2. reach[k + (n - 1)] \subseteq reach[k + n]
    BY <2>1 DEF Spread
  <2> QED BY <1>3, <2>1, <2>2
<1>4. 0 .. far \subseteq S
  <2> HIDE DEF S, far
  <2> QED BY <1>1, <1>2, <1>3, AllOfThem
<1> QED BY <1>1, <1>4

-----------------------------------------------------------------------------
(* The trace: a node is expanded *)

SearchEntry == [id : Ids, depth : Nat]

\* A search in progress: no node is visited twice.
Searches == {found \in [nodes : Seq(SearchEntry), edges : SUBSET DOMAIN edges] :
               \A i, j \in DOMAIN found.nodes : found.nodes[i].id = found.nodes[j].id => i = j}

\* What a search has become when some neighbours of a node were looked at: the
\* new nodes are the known ones among them, and lie one link farther.
Grown(found, new, at, looked, way) ==
    /\ new \in Searches
    /\ Len(found.nodes) <= Len(new.nodes)
    /\ \A i \in DOMAIN found.nodes : new.nodes[i] = found.nodes[i]
    /\ \A i \in DOMAIN new.nodes \ DOMAIN found.nodes :
         new.nodes[i].depth = at.depth + 1 /\ new.nodes[i].id \in nodes \cap looked
    /\ nodes \cap looked \subseteq Visited(new)
    /\ new.edges = found.edges \cup {FirstEdge(at.id, nb, way) : nb \in looked}

LEMMA SearchFacts ==
    ASSUME NEW found \in Searches
    PROVE  /\ found.nodes \in Seq(SearchEntry) /\ found.edges \subseteq DOMAIN edges
           /\ Len(found.nodes) \in Nat /\ DOMAIN found.nodes = 1 .. Len(found.nodes)
           /\ \A i \in DOMAIN found.nodes : /\ found.nodes[i] \in SearchEntry
                                            /\ found.nodes[i].id \in Ids
                                            /\ found.nodes[i].depth \in Nat
           /\ \A i, j \in DOMAIN found.nodes : found.nodes[i].id = found.nodes[j].id => i = j
<1>1. /\ found.nodes \in Seq(SearchEntry) /\ found.edges \subseteq DOMAIN edges
      /\ \A i, j \in DOMAIN found.nodes : found.nodes[i].id = found.nodes[j].id => i = j
  BY DEF Searches
<1>2. Len(found.nodes) \in Nat /\ DOMAIN found.nodes = 1 .. Len(found.nodes)
  BY <1>1
<1>3. \A i \in DOMAIN found.nodes : found.nodes[i] \in SearchEntry
  BY <1>1, <1>2, ElementOfSeq
<1>4. \A e \in SearchEntry : e.id \in Ids /\ e.depth \in Nat
  BY DEF SearchEntry
<1> QED BY <1>1, <1>2, <1>3, <1>4

LEMMA LookAtGrows ==
    ASSUME SearchTypeOK, NEW way \in Ways, NEW at \in SearchEntry, NEW found \in Searches,
           NEW new, NEW looked, Grown(found, new, at, looked, way),
           NEW nb \in NearTo(at.id, way)
    PROVE  Grown(found, LookAt(new, at, nb, way), at, looked \cup {nb}, way)
<1> DEFINE next == LookAt(new, at, nb, way)
           first == FirstEdge(at.id, nb, way)
           e == Entry(nb, at.depth + 1)
           n == Len(new.nodes)
<1>1. nb \in Ids /\ first \in DOMAIN edges
  BY NeighborsFacts, FirstEdgeFacts
<1>2. e \in SearchEntry /\ e.id = nb /\ e.depth = at.depth + 1
  BY <1>1 DEF Entry, SearchEntry
<1>3. /\ new \in Searches /\ n \in Nat /\ DOMAIN new.nodes = 1 .. n
      /\ new.nodes \in Seq(SearchEntry) /\ new.edges \subseteq DOMAIN edges
      /\ \A i, j \in 1 .. n : new.nodes[i].id = new.nodes[j].id => i = j
  BY SearchFacts DEF Grown
<1>4. /\ Len(found.nodes) \in Nat /\ DOMAIN found.nodes = 1 .. Len(found.nodes)
      /\ Len(found.nodes) <= n
      /\ \A i \in 1 .. Len(found.nodes) : new.nodes[i] = found.nodes[i]
      /\ \A i \in 1 .. n \ 1 .. Len(found.nodes) :
           new.nodes[i].depth = at.depth + 1 /\ new.nodes[i].id \in nodes \cap looked
      /\ nodes \cap looked \subseteq Visited(new)
      /\ new.edges = found.edges \cup {FirstEdge(at.id, x, way) : x \in looked}
  BY <1>3, SearchFacts DEF Grown
<1>5. Visited(new) = {new.nodes[i].id : i \in 1 .. n}
  BY <1>3 DEF Visited
<1>6. next.edges = found.edges \cup {FirstEdge(at.id, x, way) : x \in looked \cup {nb}}
  <2>1. next.edges = new.edges \cup {first}
    BY DEF LookAt
  <2> QED BY <1>4, <2>1
<1>7. next = [nodes |-> next.nodes, edges |-> next.edges]
      /\ next.edges \in SUBSET DOMAIN edges
  BY <1>1, <1>3 DEF LookAt
<1>8. CASE nb \in nodes \ Visited(new)
  <2>1. next.nodes = Append(new.nodes, e)
    BY <1>8 DEF LookAt
  <2>2. /\ next.nodes \in Seq(SearchEntry) /\ Len(next.nodes) = n + 1
        /\ DOMAIN next.nodes = 1 .. n + 1 /\ next.nodes[n + 1] = e
        /\ \A i \in 1 .. n : next.nodes[i] = new.nodes[i]
    <3> DEFINE list == Append(new.nodes, e)
    <3>1. /\ list \in Seq(SearchEntry) /\ Len(list) = n + 1 /\ list[n + 1] = e
          /\ \A i \in 1 .. n : list[i] = new.nodes[i]
      <4> HIDE DEF e
      <4> QED BY <1>2, <1>3, AppendProperties
    <3> HIDE DEF list, next, e, n
    <3>2. DOMAIN list = 1 .. n + 1
      BY <3>1
    <3> QED BY <2>1, <3>1, <3>2 DEF list
  <2> HIDE DEF next, e, first, n
  <2>3. \A i \in 1 .. n + 1 : i \in 1 .. n \/ i = n + 1
    BY <1>3
  <2>4. \A i, j \in 1 .. n + 1 : next.nodes[i].id = next.nodes[j].id => i = j
    <3>1. \A i \in 1 .. n : next.nodes[i].id # next.nodes[n + 1].id
      BY <1>2, <1>5, <1>8, <2>2
    <3> QED BY <1>3, <2>2, <2>3, <3>1
  <2>5. next \in Searches
    <3>1. next \in [nodes : Seq(SearchEntry), edges : SUBSET DOMAIN edges]
      BY <1>7, <2>2
    <3> QED BY <2>2, <2>4, <3>1 DEF Searches
  <2>6. Visited(next) = Visited(new) \cup {nb}
    <3>1. Visited(next) = {next.nodes[i].id : i \in 1 .. n + 1}
      BY <2>2 DEF Visited
    <3>2. n + 1 \in 1 .. n + 1 /\ \A i \in 1 .. n : i \in 1 .. n + 1
      BY <1>3
    <3> QED BY <1>2, <1>5, <2>2, <2>3, <3>1, <3>2
  <2>7. Len(found.nodes) <= Len(next.nodes)
        /\ \A i \in 1 .. Len(found.nodes) : next.nodes[i] = found.nodes[i]
    BY <1>3, <1>4, <2>2
  <2>8. ASSUME NEW i \in 1 .. n + 1, i \notin 1 .. Len(found.nodes)
        PROVE  next.nodes[i].depth = at.depth + 1 /\ next.nodes[i].id \in nodes \cap (looked \cup {nb})
    BY <1>2, <1>4, <1>8, <2>2, <2>3, <2>8
  <2> QED BY <1>4, <1>6, <2>2, <2>5, <2>6, <2>7, <2>8 DEF Grown, next
<1>9. CASE nb \notin nodes \ Visited(new)
  <2>1. next.nodes = new.nodes
    BY <1>9 DEF LookAt
  <2> HIDE DEF next, e, first, n
  <2>2. next \in Searches
    <3>1. next \in [nodes : Seq(SearchEntry), edges : SUBSET DOMAIN edges]
      BY <1>3, <1>7, <2>1
    <3> QED BY <1>3, <2>1, <3>1 DEF Searches
  <2>3. Visited(next) = Visited(new)
    BY <2>1 DEF Visited
  <2> QED BY <1>3, <1>4, <1>6, <1>9, <2>1, <2>2, <2>3 DEF Grown, next, n
<1> QED BY <1>8, <1>9

LEMMA LookAtType ==
    ASSUME SearchTypeOK, NEW way \in Ways, NEW at \in SearchEntry, NEW found \in Searches,
           NEW nb \in NearTo(at.id, way)
    PROVE  LookAt(found, at, nb, way) \in Searches
<1>1. Grown(found, found, at, {}, way)
  BY SearchFacts DEF Grown
<1>2. Grown(found, LookAt(found, at, nb, way), at, {} \cup {nb}, way)
  BY <1>1, LookAtGrows
<1> QED BY <1>2 DEF Grown

\* A node that is expanded has all its neighbours looked at.
LEMMA ExpandedGrows ==
    ASSUME SearchTypeOK, NEW way \in Ways, NEW at \in SearchEntry, NEW found \in Searches
    PROVE  Grown(found, Expanded(found, at, way), at, NearTo(at.id, way), way)
<1> DEFINE list == Neighbors(at.id, way)
           N == Len(list)
           F(g) == [n \in 0 .. N |-> IF n = 0 THEN found ELSE LookAt(g[n - 1], at, list[n], way)]
           after == CHOOSE g : g = F(g)
           D == Searches
           step == [n \in 1 .. N |-> [f \in D |-> LookAt(f, at, list[n], way)]]
<1>1. Expanded(found, at, way) = after[N]
  BY DEF Expanded
<1>2. /\ N \in Nat /\ DOMAIN list = 1 .. N
      /\ {list[n] : n \in 1 .. N} = NearTo(at.id, way)
  <2>1. list \in Seq(Ids) /\ ToSet(list) = NearTo(at.id, way)
    BY NeighborsFacts
  <2> HIDE DEF list
  <2> QED BY <2>1 DEF ToSet
<1> HIDE DEF N, list, after
<1>3. \A n \in 1 .. N : list[n] \in NearTo(at.id, way)
  BY <1>2
<1>4. \A f \in D : \A n \in 1 .. N : LookAt(f, at, list[n], way) \in D
  BY <1>3, LookAtType
<1> HIDE DEF D
<1>5. step \in Steps(D, N)
  BY <1>4 DEF Steps
<1>6. found \in D
  BY DEF D
<1>7. PICK a : Looped(D, found, N, step, a)
  <2> HIDE DEF step
  <2> QED BY <1>2, <1>5, <1>6, LoopExists
<1>8. /\ a \in [0 .. N -> D] /\ a[0] = found
      /\ \A n \in 1 .. N : a[n] = step[n][a[n - 1]]
  BY <1>7 DEF Looped
<1>9. \A n \in 1 .. N : n \in 0 .. N /\ n # 0 /\ n - 1 \in 0 .. N
  BY <1>2
<1>10. \A n \in 1 .. N : a[n] = LookAt(a[n - 1], at, list[n], way)
  BY <1>8, <1>9
<1>11. a = F(a)
  <2>1. \A n \in 0 .. N : n # 0 => n \in 1 .. N
    BY <1>2
  <2> QED BY <1>8, <1>10, <2>1
<1>12. after = F(after)
  <2> HIDE DEF F
  <2> QED BY <1>11 DEF after
<1>13. 0 \in 0 .. N /\ after[0] = found
       /\ \A n \in 1 .. N : after[n] = LookAt(after[n - 1], at, list[n], way)
  <2>1. 0 \in 0 .. N
    BY <1>2
  <2>2. \A g : F(g)[0] = found /\ \A n \in 1 .. N : F(g)[n] = LookAt(g[n - 1], at, list[n], way)
    BY <1>9, <2>1
  <2> HIDE DEF F
  <2> QED BY <1>12, <2>1, <2>2
<1> DEFINE Seen(n) == {list[m] : m \in 1 .. n}
           S == {n \in 0 .. N : Grown(found, after[n], at, Seen(n), way)}
<1>14. 0 \in S
  <2>1. Seen(0) = {}
    OBVIOUS
  <2>2. Grown(found, found, at, {}, way)
    BY SearchFacts DEF Grown
  <2> HIDE DEF Seen
  <2> QED BY <1>13, <2>1, <2>2
<1>15. ASSUME NEW n \in 1 .. N, n - 1 \in S PROVE n \in S
  <2>1. Seen(n) = Seen(n - 1) \cup {list[n]}
    <3>1. \A m \in 1 .. n : m \in 1 .. n - 1 \/ m = n
      BY <1>2
    <3>2. n \in 1 .. n /\ \A m \in 1 .. n - 1 : m \in 1 .. n
      BY <1>2
    <3> QED BY <3>1, <3>2
  <2> HIDE DEF Seen
  <2>2. Grown(found, after[n - 1], at, Seen(n - 1), way)
    BY <1>15
  <2>3. Grown(found, after[n], at, Seen(n), way)
    BY <1>3, <1>13, <2>1, <2>2, LookAtGrows
  <2> QED BY <1>9, <2>3
<1>16. 0 .. N \subseteq S
  <2> HIDE DEF S
  <2> QED BY <1>2, <1>14, <1>15, AllOfThem
<1>17. Grown(found, after[N], at, Seen(N), way)
  <2>1. N \in S
    <3> HIDE DEF S
    <3> QED BY <1>2, <1>16
  <2> HIDE DEF Seen
  <2> QED BY <2>1
<1>18. Seen(N) = NearTo(at.id, way)
  BY <1>2
<1> HIDE DEF Seen
<1> QED BY <1>1, <1>17, <1>18

-----------------------------------------------------------------------------
(* The trace: the invariant of the search *)

\* The node at a place of the queue was expanded in the first turns.
Opened(found, i, turn, depth) == i <= turn /\ found.nodes[i].depth < depth

\* Every visited node is as far as its depth says, and not nearer.
Measures(found, reach, depth) ==
    \A i \in DOMAIN found.nodes :
        /\ found.nodes[i].id \in nodes /\ found.nodes[i].depth \in 0 .. depth
        /\ found.nodes[i].id \in reach[found.nodes[i].depth]
        /\ \A m \in 0 .. found.nodes[i].depth - 1 : found.nodes[i].id \notin reach[m]

\* The nearest come first, and what waits in the queue is of one depth or two.
Queued(found, turn) ==
    \A i, j \in DOMAIN found.nodes :
        /\ i <= j => found.nodes[i].depth <= found.nodes[j].depth
        /\ i > turn => found.nodes[j].depth <= found.nodes[i].depth + 1

LookedAround(found, turn, depth, way) ==
    \A i \in DOMAIN found.nodes : Opened(found, i, turn, depth) =>
        nodes \cap NearTo(found.nodes[i].id, way) \subseteq Visited(found)

\* The edges are those of the nodes that were expanded.
Traced(found, turn, depth, way, k) ==
    \E i \in DOMAIN found.nodes : /\ Opened(found, i, turn, depth)
                                  /\ \E nb \in NearTo(found.nodes[i].id, way) :
                                       k = FirstEdge(found.nodes[i].id, nb, way)

Searched(found, start, reach, depth, way, turn) ==
    /\ found \in Searches
    /\ 1 \in DOMAIN found.nodes /\ found.nodes[1] = Entry(start, 0)
    /\ Measures(found, reach, depth) /\ Queued(found, turn)
    /\ LookedAround(found, turn, depth, way)
    /\ \A k : k \in found.edges <=> Traced(found, turn, depth, way, k)

\* When all nodes nearer than d were expanded, all within d are visited.
LEMMA Swept ==
    ASSUME SearchTypeOK, NEW way \in Ways, NEW start \in nodes, NEW depth \in Nat, NEW reach,
           reach \in [0 .. depth -> SUBSET nodes], reach[0] = {start}, Spread(reach, way, depth),
           NEW turn, NEW found, Searched(found, start, reach, depth, way, turn),
           NEW d \in 0 .. depth, \A i \in DOMAIN found.nodes : found.nodes[i].depth < d => i <= turn
    PROVE  \A m \in 0 .. d : reach[m] \subseteq Visited(found)
<1>1. /\ found \in Searches /\ 1 \in DOMAIN found.nodes /\ found.nodes[1] = Entry(start, 0)
      /\ Measures(found, reach, depth) /\ LookedAround(found, turn, depth, way)
  BY DEF Searched
<1>2. Visited(found) = {found.nodes[i].id : i \in DOMAIN found.nodes}
  BY DEF Visited
<1> DEFINE S == {m \in 0 .. d : reach[m] \subseteq Visited(found)}
<1>3. 0 \in S
  <2>1. start \in Visited(found) /\ 0 \in 0 .. d
    BY <1>1, <1>2 DEF Entry
  <2> QED BY <2>1
<1>4. ASSUME NEW m \in 1 .. d, m - 1 \in S PROVE m \in S
  <2>1. /\ m \in 1 .. depth /\ m - 1 \in 0 .. depth /\ m \in 0 .. d /\ m - 1 < d /\ m - 1 < depth
        /\ reach[m - 1] \subseteq Visited(found)
    BY <1>4
  <2>2. ASSUME NEW nb \in reach[m], nb \notin reach[m - 1] PROVE nb \in Visited(found)
    <3>1. PICK id \in reach[m - 1] : nb \in NearTo(id, way) /\ nb \in nodes
      BY <2>1, <2>2 DEF Spread
    <3>2. PICK i \in DOMAIN found.nodes : found.nodes[i].id = id
      BY <1>2, <2>1, <3>1
    <3>3. found.nodes[i].depth <= m - 1 /\ found.nodes[i].depth \in Nat
      <4>1. /\ found.nodes[i].depth \in 0 .. depth
            /\ \A n \in 0 .. found.nodes[i].depth - 1 : id \notin reach[n]
        BY <1>1, <3>2 DEF Measures
      <4>2. m - 1 \notin 0 .. found.nodes[i].depth - 1
        BY <3>1, <4>1
      <4> QED BY <2>1, <4>1, <4>2
    <3>4. Opened(found, i, turn, depth)
      BY <2>1, <3>3 DEF Opened
    <3> QED BY <1>1, <3>1, <3>2, <3>4 DEF LookedAround
  <2> QED BY <2>1, <2>2
<1>5. 0 .. d \subseteq S
  <2>1. d \in Nat
    OBVIOUS
  <2> HIDE DEF S
  <2> QED BY <1>3, <1>4, <2>1, AllOfThem
<1> QED BY <1>5

\* A turn in which a node is expanded.
LEMMA TurnExpands ==
    ASSUME SearchTypeOK, NEW way \in Ways, NEW start \in nodes, NEW depth \in Nat, NEW reach,
           reach \in [0 .. depth -> SUBSET nodes], reach[0] = {start}, Spread(reach, way, depth),
           NEW turn \in Nat \ {0}, NEW found,
           Searched(found, start, reach, depth, way, turn - 1),
           turn \in DOMAIN found.nodes, found.nodes[turn].depth < depth
    PROVE  Searched(Expanded(found, found.nodes[turn], way), start, reach, depth, way, turn)
<1> DEFINE at == found.nodes[turn]
           new == Expanded(found, at, way)
           old == DOMAIN found.nodes
           all == DOMAIN new.nodes
           far == at.depth + 1
<1>1. /\ found \in Searches /\ 1 \in old /\ found.nodes[1] = Entry(start, 0)
      /\ Measures(found, reach, depth) /\ Queued(found, turn - 1)
      /\ LookedAround(found, turn - 1, depth, way)
      /\ \A k : k \in found.edges <=> Traced(found, turn - 1, depth, way, k)
  BY DEF Searched
<1>2. /\ at \in SearchEntry /\ turn \in old
      /\ Len(found.nodes) \in Nat /\ old = 1 .. Len(found.nodes)
      /\ \A i \in old : found.nodes[i].depth \in Nat
  BY <1>1, SearchFacts
<1>3. at.id \in nodes /\ at.depth \in 0 .. depth /\ at.id \in reach[at.depth] /\ far \in 1 .. depth
  <2>1. at.id \in nodes /\ at.depth \in 0 .. depth /\ at.id \in reach[at.depth]
    BY <1>1, <1>2 DEF Measures
  <2> QED BY <2>1
<1>4. Grown(found, new, at, NearTo(at.id, way), way)
  BY <1>1, <1>2, ExpandedGrows
<1> HIDE DEF at, new
<1>5. /\ new \in Searches /\ all = 1 .. Len(new.nodes) /\ Len(new.nodes) \in Nat
      /\ Len(found.nodes) <= Len(new.nodes)
      /\ \A i \in all : new.nodes[i].id \in Ids /\ new.nodes[i].depth \in Nat
      /\ \A i, j \in all : new.nodes[i].id = new.nodes[j].id => i = j
  BY <1>4, SearchFacts DEF Grown
<1>6. /\ old \subseteq all /\ \A i \in old : new.nodes[i] = found.nodes[i]
      /\ \A i \in all \ old : /\ new.nodes[i].depth = far
                              /\ new.nodes[i].id \in nodes \cap NearTo(at.id, way)
      /\ nodes \cap NearTo(at.id, way) \subseteq Visited(new)
      /\ new.edges = found.edges \cup {FirstEdge(at.id, nb, way) : nb \in NearTo(at.id, way)}
  BY <1>2, <1>4, <1>5 DEF Grown
<1>7. /\ Visited(found) = {found.nodes[i].id : i \in old}
      /\ Visited(new) = {new.nodes[i].id : i \in all}
  BY DEF Visited
<1>8. Visited(found) \subseteq Visited(new)
  <2>1. \A i \in old : found.nodes[i].id = new.nodes[i].id /\ i \in all
    BY <1>6
  <2> HIDE DEF old, all
  <2> QED BY <1>7, <2>1
<1>9. /\ turn \in old /\ new.nodes[turn] = at /\ found.nodes[turn] = at
      /\ at.depth \in Nat /\ at.depth < depth
      /\ \A i, j \in old : i <= j => found.nodes[i].depth <= found.nodes[j].depth
      /\ \A i \in old : found.nodes[i].depth <= far
  BY <1>1, <1>2, <1>6 DEF Queued, at
<1> HIDE DEF old, all
<1>10. \A m \in 0 .. at.depth : reach[m] \subseteq Visited(found)
  <2>1. \A i \in old : found.nodes[i].depth < at.depth => i <= turn - 1
    BY <1>2, <1>9
  <2>2. at.depth \in 0 .. depth
    BY <1>3
  <2>3. \A i \in DOMAIN found.nodes : found.nodes[i].depth < at.depth => i <= turn - 1
    BY <2>1 DEF old
  <2> HIDE DEF far
  <2> QED BY <2>2, <2>3, Swept
<1>11. Measures(new, reach, depth)
  <2>1. ASSUME NEW i \in all
        PROVE  /\ new.nodes[i].id \in nodes /\ new.nodes[i].depth \in 0 .. depth
               /\ new.nodes[i].id \in reach[new.nodes[i].depth]
               /\ \A m \in 0 .. new.nodes[i].depth - 1 : new.nodes[i].id \notin reach[m]
    <3>1. CASE i \in old
      BY <1>1, <1>6, <3>1 DEF Measures, old
    <3>2. CASE i \notin old
      <4>1. new.nodes[i].depth = far /\ new.nodes[i].id \in nodes /\ new.nodes[i].id \in NearTo(at.id, way)
        BY <1>6, <3>2
      <4>2. reach[far] = reach[far - 1] \cup
                {nb \in nodes : \E id \in reach[far - 1] : nb \in NearTo(id, way)}
        BY <1>3 DEF Spread
      <4>3. far - 1 = at.depth
        BY <1>3
      <4>4. new.nodes[i].id \in reach[far]
        BY <1>3, <4>1, <4>2, <4>3
      <4>5. new.nodes[i].id \notin Visited(found)
        <5>1. \A j \in old : j \in all /\ new.nodes[j].id = found.nodes[j].id /\ j # i
          BY <1>6, <3>2
        <5> QED BY <1>5, <1>7, <5>1
      <4>6. \A m \in 0 .. far - 1 : new.nodes[i].id \notin reach[m]
        BY <1>10, <4>3, <4>5
      <4>7. far \in 0 .. depth
        BY <1>3
      <4> QED BY <4>1, <4>4, <4>6, <4>7
    <3> QED BY <3>1, <3>2
  <2> QED BY <2>1 DEF Measures, all
<1>12. Queued(new, turn)
  <2>1. \A i \in all \ old : \A j \in old : j <= i /\ i > j
    BY <1>2, <1>5 DEF all, old
  <2>2. \A i \in all : new.nodes[i].depth <= far /\ new.nodes[i].depth \in Nat
    <3>1. far \in Nat
      BY <1>3
    <3>2. ASSUME NEW i \in all PROVE new.nodes[i].depth <= far
      <4>1. CASE i \in old
        BY <1>6, <1>9, <4>1
      <4>2. CASE i \notin old
        BY <1>6, <3>1, <4>2
      <4> QED BY <4>1, <4>2
    <3> QED BY <1>5, <3>2
  <2>3. \A i \in all : i > turn => new.nodes[i].depth >= at.depth
    <3>1. \A i \in old : i > turn => found.nodes[i].depth >= at.depth
      BY <1>2, <1>9
    <3> QED BY <1>3, <1>6, <3>1
  <2>4. ASSUME NEW i \in all, NEW j \in all, i > turn
        PROVE  new.nodes[j].depth <= new.nodes[i].depth + 1
    BY <1>3, <2>2, <2>3, <2>4
  <2>5. ASSUME NEW i \in all, NEW j \in all, i <= j
        PROVE  new.nodes[i].depth <= new.nodes[j].depth
    <3>1. CASE i \in old /\ j \in old
      BY <1>6, <1>9, <2>5, <3>1
    <3>2. CASE j \notin old
      <4>1. new.nodes[j].depth = far
        BY <1>6, <3>2
      <4> QED BY <2>2, <4>1
    <3>3. CASE i \notin old /\ j \in old
      <4>1. i > j /\ i \in Nat /\ j \in Nat
        BY <1>5, <2>1, <3>3 DEF all
      <4> QED BY <2>5, <4>1
    <3> QED BY <3>1, <3>2, <3>3
  <2> QED BY <2>4, <2>5 DEF Queued, all
<1>13. \A i \in all : Opened(new, i, turn, depth) <=>
           i = turn \/ (i \in old /\ Opened(found, i, turn - 1, depth))
  <2>1. ASSUME NEW i \in all, i \notin old PROVE ~Opened(new, i, turn, depth) /\ i # turn
    BY <1>2, <1>5, <2>1 DEF Opened, all, old
  <2>2. ASSUME NEW i \in old
        PROVE  Opened(new, i, turn, depth) <=> i = turn \/ Opened(found, i, turn - 1, depth)
    <3>1. i \in Nat /\ new.nodes[i] = found.nodes[i]
      BY <1>2, <1>6
    <3> QED BY <1>9, <3>1 DEF Opened
  <2> QED BY <2>1, <2>2
<1>14. LookedAround(new, turn, depth, way)
  <2>1. ASSUME NEW i \in all, Opened(new, i, turn, depth)
        PROVE  nodes \cap NearTo(new.nodes[i].id, way) \subseteq Visited(new)
    <3>1. CASE i = turn
      BY <1>6, <1>9, <3>1
    <3>2. CASE i \in old /\ Opened(found, i, turn - 1, depth)
      <4>1. nodes \cap NearTo(found.nodes[i].id, way) \subseteq Visited(found)
        BY <1>1, <3>2 DEF LookedAround, old
      <4> QED BY <1>6, <1>8, <3>2, <4>1
    <3> QED BY <1>13, <2>1, <3>1, <3>2
  <2> QED BY <2>1 DEF LookedAround, all
<1>15. ASSUME NEW k PROVE k \in new.edges <=> Traced(new, turn, depth, way, k)
  <2>1. k \in new.edges <=> \/ Traced(found, turn - 1, depth, way, k)
                            \/ \E nb \in NearTo(at.id, way) : k = FirstEdge(at.id, nb, way)
    BY <1>1, <1>6
  <2>2. Traced(new, turn, depth, way, k) <=>
            \E i \in all : /\ Opened(new, i, turn, depth)
                           /\ \E nb \in NearTo(new.nodes[i].id, way) :
                                k = FirstEdge(new.nodes[i].id, nb, way)
    BY DEF Traced, all
  <2>3. Traced(found, turn - 1, depth, way, k) <=>
            \E i \in old : /\ Opened(found, i, turn - 1, depth)
                           /\ \E nb \in NearTo(found.nodes[i].id, way) :
                                k = FirstEdge(found.nodes[i].id, nb, way)
    BY DEF Traced, old
  <2>4. turn \in all /\ new.nodes[turn].id = at.id
    BY <1>6, <1>9
  <2>5. Traced(new, turn, depth, way, k) =>
            \/ Traced(found, turn - 1, depth, way, k)
            \/ \E nb \in NearTo(at.id, way) : k = FirstEdge(at.id, nb, way)
    BY <1>6, <1>13, <2>2, <2>3, <2>4
  <2>6. (\E nb \in NearTo(at.id, way) : k = FirstEdge(at.id, nb, way)) =>
            Traced(new, turn, depth, way, k)
    BY <1>13, <2>2, <2>4
  <2>7. Traced(found, turn - 1, depth, way, k) => Traced(new, turn, depth, way, k)
    BY <1>6, <1>13, <2>2, <2>3
  <2> QED BY <2>1, <2>5, <2>6, <2>7
<1>16. 1 \in DOMAIN new.nodes /\ new.nodes[1] = Entry(start, 0)
  BY <1>1, <1>6 DEF all
<1> QED BY <1>5, <1>11, <1>12, <1>14, <1>15, <1>16 DEF Searched, new, at

\* A turn in which nothing is left to expand.
LEMMA TurnRests ==
    ASSUME NEW way, NEW start, NEW depth \in Nat, NEW reach,
           NEW turn \in Nat \ {0}, NEW found,
           Searched(found, start, reach, depth, way, turn - 1),
           ~(turn \in DOMAIN found.nodes /\ found.nodes[turn].depth < depth)
    PROVE  Searched(found, start, reach, depth, way, turn)
<1>1. /\ found \in Searches /\ Queued(found, turn - 1) /\ LookedAround(found, turn - 1, depth, way)
      /\ \A k : k \in found.edges <=> Traced(found, turn - 1, depth, way, k)
  BY DEF Searched
<1>2. \A i \in DOMAIN found.nodes : i \in Nat /\ found.nodes[i].depth \in Nat
  BY <1>1, SearchFacts
<1>3. \A i \in DOMAIN found.nodes :
          Opened(found, i, turn, depth) <=> Opened(found, i, turn - 1, depth)
  BY <1>2 DEF Opened
<1>4. Queued(found, turn)
  BY <1>1, <1>2 DEF Queued
<1>5. LookedAround(found, turn, depth, way)
  BY <1>1, <1>3 DEF LookedAround
<1>6. \A k : k \in found.edges <=> Traced(found, turn, depth, way, k)
  BY <1>1, <1>3 DEF Traced
<1> QED BY <1>4, <1>5, <1>6 DEF Searched

\* The search, turn by turn.
LEMMA SearchRuns ==
    ASSUME SearchTypeOK, NEW way \in Ways, NEW start \in nodes, NEW depth \in Nat, NEW reach,
           reach \in [0 .. depth -> SUBSET nodes], reach[0] = {start}, Spread(reach, way, depth)
    PROVE  Searched(Search(start, way, depth), start, reach, depth, way, Cardinality(nodes))
<1> DEFINE N == Cardinality(nodes)
           begun == [nodes |-> <<Entry(start, 0)>>, edges |-> {}]
           turned(f, n) == IF n \in DOMAIN f.nodes /\ f.nodes[n].depth < depth
                           THEN Expanded(f, f.nodes[n], way) ELSE f
           F(g) == [n \in 0 .. N |-> IF n = 0 THEN begun ELSE turned(g[n - 1], n)]
           run == CHOOSE g : g = F(g)
           D == Searches
           step == [n \in 1 .. N |-> [f \in D |-> turned(f, n)]]
           S == {n \in 0 .. N : Searched(run[n], start, reach, depth, way, n)}
<1>1. Search(start, way, depth) = run[N]
  BY DEF Search
<1>2. N \in Nat
  BY FS_CardinalityType DEF SearchTypeOK
<1>3. start \in Ids /\ Entry(start, 0) \in SearchEntry
  BY DEF SearchTypeOK, Entry, SearchEntry
<1>4. /\ begun \in Searches /\ DOMAIN begun.nodes = {1} /\ begun.nodes[1] = Entry(start, 0)
      /\ begun.edges = {}
  <2>1. /\ <<Entry(start, 0)>> \in Seq(SearchEntry) /\ DOMAIN <<Entry(start, 0)>> = {1}
        /\ <<Entry(start, 0)>>[1] = Entry(start, 0)
    <3> DEFINE e == Entry(start, 0)
    <3> HIDE DEF e
    <3>1. <<e>> \in Seq(SearchEntry)
      BY <1>3 DEF e
    <3>2. DOMAIN <<e>> = {1} /\ <<e>>[1] = e
      OBVIOUS
    <3> QED BY <3>1, <3>2 DEF e
  <2> QED BY <2>1 DEF Searches
<1>5. \A f \in D : \A n \in 1 .. N : turned(f, n) \in D
  <2> SUFFICES ASSUME NEW f \in Searches, NEW n \in DOMAIN f.nodes
               PROVE  Expanded(f, f.nodes[n], way) \in Searches
    BY DEF D
  <2>1. f.nodes[n] \in SearchEntry
    BY SearchFacts
  <2> QED BY <2>1, ExpandedGrows DEF Grown
<1>6. begun \in D
  BY <1>4
<1> HIDE DEF N, begun, turned, run, D
<1>7. step \in Steps(D, N)
  BY <1>5 DEF Steps
<1>8. PICK a : Looped(D, begun, N, step, a)
  <2> HIDE DEF step
  <2> QED BY <1>2, <1>6, <1>7, LoopExists
<1>9. /\ a \in [0 .. N -> D] /\ a[0] = begun
      /\ \A n \in 1 .. N : a[n] = step[n][a[n - 1]]
  BY <1>8 DEF Looped
<1>10. \A n \in 1 .. N : n \in 0 .. N /\ n # 0 /\ n - 1 \in 0 .. N
  BY <1>2
<1>11. \A n \in 1 .. N : a[n] = turned(a[n - 1], n)
  BY <1>9, <1>10
<1>12. a = F(a)
  <2>1. \A n \in 0 .. N : n # 0 => n \in 1 .. N
    BY <1>2
  <2> QED BY <1>9, <1>11, <2>1
<1>13. run = F(run)
  <2> HIDE DEF F
  <2> QED BY <1>12 DEF run
<1>14. run[0] = begun /\ \A n \in 1 .. N : run[n] = turned(run[n - 1], n)
  <2>1. 0 \in 0 .. N
    BY <1>2
  <2>2. \A g : F(g)[0] = begun /\ \A n \in 1 .. N : F(g)[n] = turned(g[n - 1], n)
    BY <1>10, <2>1
  <2> HIDE DEF F
  <2> QED BY <1>13, <2>1, <2>2
<1>15. Searched(begun, start, reach, depth, way, 0)
  <2>1. Entry(start, 0).id = start /\ Entry(start, 0).depth = 0
    BY DEF Entry
  <2>2. Measures(begun, reach, depth) /\ Queued(begun, 0)
    BY <1>4, <2>1 DEF Measures, Queued
  <2>3. \A i \in DOMAIN begun.nodes : ~Opened(begun, i, 0, depth)
    BY <1>4 DEF Opened
  <2> QED BY <1>4, <2>2, <2>3 DEF Searched, LookedAround, Traced
<1>16. 0 \in S
  BY <1>2, <1>14, <1>15
<1>17. ASSUME NEW n \in 1 .. N, n - 1 \in S PROVE n \in S
  <2> DEFINE f == run[n - 1]
  <2>1. Searched(f, start, reach, depth, way, n - 1) /\ n \in Nat \ {0} /\ run[n] = turned(f, n)
    BY <1>2, <1>14, <1>17
  <2> HIDE DEF f
  <2>2. Searched(turned(f, n), start, reach, depth, way, n)
    <3>1. CASE n \in DOMAIN f.nodes /\ f.nodes[n].depth < depth
      <4>1. turned(f, n) = Expanded(f, f.nodes[n], way)
        BY <3>1 DEF turned
      <4> QED BY <2>1, <3>1, <4>1, TurnExpands
    <3>2. CASE ~(n \in DOMAIN f.nodes /\ f.nodes[n].depth < depth)
      <4>1. turned(f, n) = f
        BY <3>2 DEF turned
      <4> QED BY <2>1, <3>2, <4>1, TurnRests
    <3> QED BY <3>1, <3>2
  <2> QED BY <1>10, <2>1, <2>2
<1>18. N \in S
  <2>1. 0 .. N \subseteq S
    <3> HIDE DEF S
    <3> QED BY <1>2, <1>16, <1>17, AllOfThem
  <2> QED BY <1>2, <2>1
<1> QED BY <1>1, <1>18 DEF N

-----------------------------------------------------------------------------
(* The trace: what a search finds *)

\* The nodes visited are those within the depth, each once.
LEMMA SearchFinds ==
    ASSUME SearchTypeOK, NEW way \in Ways, NEW start \in nodes, NEW depth \in Nat, NEW reach,
           reach \in [0 .. depth -> SUBSET nodes], reach[0] = {start}, Spread(reach, way, depth),
           NEW found, Searched(found, start, reach, depth, way, Cardinality(nodes))
    PROVE  /\ Visited(found) = reach[depth] /\ Len(found.nodes) = Cardinality(reach[depth])
           /\ Len(found.nodes) \in DOMAIN found.nodes
           /\ \A i \in DOMAIN found.nodes : i <= Cardinality(nodes)
<1> DEFINE N == Cardinality(nodes)
           n == Len(found.nodes)
           ids == [i \in 1 .. n |-> found.nodes[i].id]
<1>1. /\ found \in Searches /\ 1 \in DOMAIN found.nodes /\ Measures(found, reach, depth)
  BY DEF Searched
<1>2. /\ n \in Nat /\ DOMAIN found.nodes = 1 .. n
      /\ \A i, j \in DOMAIN found.nodes : found.nodes[i].id = found.nodes[j].id => i = j
      /\ \A i \in DOMAIN found.nodes : found.nodes[i].depth \in Nat
  BY <1>1, SearchFacts
<1> HIDE DEF n
<1>3. Visited(found) = {found.nodes[i].id : i \in 1 .. n} /\ n \in 1 .. n
  BY <1>1, <1>2 DEF Visited
<1>4. IsFiniteSet(nodes) /\ N \in Nat /\ IsFiniteSet(1 .. n) /\ Cardinality(1 .. n) = n
  BY <1>2, FS_CardinalityType, FS_Interval DEF SearchTypeOK
<1>5. n <= N
  <2>1. ids \in Injection(1 .. n, nodes)
    BY <1>1, <1>2 DEF Measures, Injection, IsInjective
  <2> HIDE DEF ids, N
  <2>2. Cardinality(1 .. n) <= Cardinality(nodes)
    BY <1>4, <2>1, FS_Injection
  <2> QED BY <1>4, <2>2 DEF N
<1>6. Visited(found) \subseteq reach[depth]
  <2> SUFFICES ASSUME NEW i \in 1 .. n PROVE found.nodes[i].id \in reach[depth]
    BY <1>3
  <2>1. found.nodes[i].depth \in 0 .. depth /\ found.nodes[i].id \in reach[found.nodes[i].depth]
    BY <1>1, <1>2 DEF Measures
  <2>2. reach[found.nodes[i].depth] \subseteq reach[depth]
    <3>1. depth \in found.nodes[i].depth .. depth
      BY <2>1
    <3> QED BY <2>1, <3>1, SpreadGrows
  <2> QED BY <2>1, <2>2
<1>7. reach[depth] \subseteq Visited(found)
  <2>1. \A i \in DOMAIN found.nodes : found.nodes[i].depth < depth => i <= N
    BY <1>2, <1>4, <1>5
  <2>2. depth \in 0 .. depth
    OBVIOUS
  <2>3. \A m \in 0 .. depth : reach[m] \subseteq Visited(found)
    BY <2>1, <2>2, Swept
  <2> QED BY <2>2, <2>3
<1>8. n = Cardinality(reach[depth])
  <2>1. Visited(found) = {ids[i] : i \in 1 .. n}
    BY <1>3
  <2>2. ids \in Injection(1 .. n, Visited(found)) /\ ids \in Surjection(1 .. n, Visited(found))
    <3>1. ids \in [1 .. n -> Visited(found)] /\ \A i, j \in 1 .. n : ids[i] = ids[j] => i = j
      BY <1>2, <1>3
    <3>2. \A id \in Visited(found) : \E i \in 1 .. n : ids[i] = id
      BY <2>1
    <3> HIDE DEF ids
    <3> QED BY <3>1, <3>2 DEF Injection, IsInjective, Surjection
  <2> HIDE DEF ids
  <2>3. Cardinality(Visited(found)) = Cardinality(1 .. n)
    BY <1>4, <2>2, FS_Surjection
  <2>4. Visited(found) = reach[depth]
    BY <1>6, <1>7
  <2> QED BY <1>4, <2>3, <2>4
<1> QED BY <1>2, <1>3, <1>4, <1>5, <1>6, <1>7, <1>8 DEF n

\* The last node visited is one of the farthest.
LEMMA EndIsFarthest ==
    ASSUME SearchTypeOK, NEW way \in Ways, NEW start \in nodes, NEW depth \in Nat, NEW reach,
           reach \in [0 .. depth -> SUBSET nodes], reach[0] = {start}, Spread(reach, way, depth),
           NEW found, Searched(found, start, reach, depth, way, Cardinality(nodes)),
           NEW k \in 0 .. depth, found.nodes[Len(found.nodes)].id \in reach[k]
    PROVE  reach[k] = reach[depth]
<1> DEFINE n == Len(found.nodes)
           last == found.nodes[n]
<1>1. found \in Searches /\ Measures(found, reach, depth) /\ Queued(found, Cardinality(nodes))
  BY DEF Searched
<1>2. Visited(found) = reach[depth] /\ n \in DOMAIN found.nodes
  BY SearchFinds
<1>3. /\ n \in Nat /\ DOMAIN found.nodes = 1 .. n
      /\ \A i \in DOMAIN found.nodes : found.nodes[i].depth \in Nat
  BY <1>1, SearchFacts
<1>4. last.depth <= k
  <2>1. last.depth \in 0 .. depth /\ \A m \in 0 .. last.depth - 1 : last.id \notin reach[m]
    BY <1>1, <1>2 DEF Measures
  <2>2. k \notin 0 .. last.depth - 1
    BY <2>1
  <2> QED BY <2>1, <2>2
<1>5. reach[depth] \subseteq reach[k]
  <2> SUFFICES ASSUME NEW i \in DOMAIN found.nodes PROVE found.nodes[i].id \in reach[k]
    BY <1>2 DEF Visited
  <2>1. found.nodes[i].depth \in 0 .. depth /\ found.nodes[i].id \in reach[found.nodes[i].depth]
    BY <1>1 DEF Measures
  <2>2. found.nodes[i].depth <= last.depth
    BY <1>1, <1>2, <1>3 DEF Queued
  <2>3. k \in found.nodes[i].depth .. depth
    BY <1>2, <1>3, <1>4, <2>1, <2>2
  <2>4. reach[found.nodes[i].depth] \subseteq reach[k]
    BY <2>1, <2>3, SpreadGrows
  <2> QED BY <2>1, <2>4
<1>6. reach[k] \subseteq reach[depth]
  <2>1. depth \in k .. depth
    OBVIOUS
  <2> QED BY <2>1, SpreadGrows
<1> QED BY <1>5, <1>6

\* A search that is over has one edge for each two nodes linked within its depth.
LEMMA EdgesFound ==
    ASSUME SearchTypeOK, NEW way \in Ways, NEW start \in nodes, NEW depth \in Nat \ {0}, NEW reach,
           reach \in [0 .. depth -> SUBSET nodes], reach[0] = {start}, Spread(reach, way, depth),
           NEW found, Searched(found, start, reach, depth, way, Cardinality(nodes)),
           NEW i \in DOMAIN edges
    PROVE  Cardinality({j \in found.edges : edges[j] = edges[i]})
             = (IF From(edges[i], way) \in reach[depth - 1] THEN 1 ELSE 0)
<1> DEFINE id == From(edges[i], way)
           nb == To(edges[i], way)
           same == {j \in found.edges : edges[j] = edges[i]}
           N == Cardinality(nodes)
<1>1. /\ found \in Searches /\ Measures(found, reach, depth)
      /\ \A k : k \in found.edges <=> Traced(found, N, depth, way, k)
  BY DEF Searched
<1>2. Visited(found) = reach[depth] /\ \A x \in DOMAIN found.nodes : x <= N
  BY SearchFinds
<1>3. \A x \in DOMAIN found.nodes : found.nodes[x].depth \in Nat
  BY <1>1, SearchFacts
<1>4. nb \in NearTo(id, way) /\ Links(i, id, nb, way)
  BY DEF NearTo, Links
<1> DEFINE first == FirstEdge(id, nb, way)
<1>5. first \in DOMAIN edges /\ Links(first, id, nb, way)
  BY <1>4, FirstEdgeFacts
<1>6. edges[first] = edges[i]
  <2>1. From(edges[first], way) = id /\ To(edges[first], way) = nb
    BY <1>5 DEF Links
  <2> QED BY <1>5, <2>1, EdgeFacts
<1> HIDE DEF first, N
<1>7. ASSUME NEW j \in same
      PROVE  /\ j = first
             /\ \E x \in DOMAIN found.nodes : Opened(found, x, N, depth) /\ found.nodes[x].id = id
  <2>1. PICK x \in DOMAIN found.nodes :
             /\ Opened(found, x, N, depth)
             /\ \E y \in NearTo(found.nodes[x].id, way) : j = FirstEdge(found.nodes[x].id, y, way)
    BY <1>1 DEF Traced
  <2>2. PICK y \in NearTo(found.nodes[x].id, way) : j = FirstEdge(found.nodes[x].id, y, way)
    BY <2>1
  <2>3. Links(j, found.nodes[x].id, y, way)
    BY <2>2, FirstEdgeFacts
  <2>4. found.nodes[x].id = id /\ y = nb
    BY <2>3 DEF Links
  <2> QED BY <2>1, <2>2, <2>4 DEF first
<1>8. CASE id \in reach[depth - 1]
  <2>1. depth - 1 \in 0 .. depth /\ depth \in depth - 1 .. depth
    OBVIOUS
  <2>2. id \in reach[depth]
    BY <1>8, <2>1, SpreadGrows
  <2>3. PICK x \in DOMAIN found.nodes : found.nodes[x].id = id
    BY <1>2, <2>2 DEF Visited
  <2>4. found.nodes[x].depth < depth
    <3>1. /\ found.nodes[x].depth \in 0 .. depth
          /\ \A m \in 0 .. found.nodes[x].depth - 1 : id \notin reach[m]
      BY <1>1, <2>3 DEF Measures
    <3>2. depth - 1 \notin 0 .. found.nodes[x].depth - 1
      BY <1>8, <3>1
    <3> QED BY <3>1, <3>2
  <2>5. Opened(found, x, N, depth)
    BY <1>2, <2>4 DEF Opened, N
  <2>6. first \in same
    <3>1. Traced(found, N, depth, way, first)
      BY <1>4, <2>3, <2>5 DEF Traced, first
    <3> QED BY <1>1, <1>6, <3>1
  <2>7. same = {first}
    <3> HIDE DEF same
    <3> QED BY <1>7, <2>6
  <2> QED BY <1>8, <2>7, FS_Singleton
<1>9. CASE id \notin reach[depth - 1]
  <2>1. same = {}
    <3> SUFFICES ASSUME NEW j \in same PROVE FALSE
      OBVIOUS
    <3>1. PICK x \in DOMAIN found.nodes : Opened(found, x, N, depth) /\ found.nodes[x].id = id
      BY <1>7
    <3>2. /\ found.nodes[x].depth \in 0 .. depth /\ found.nodes[x].depth < depth
          /\ id \in reach[found.nodes[x].depth]
      BY <1>1, <3>1 DEF Measures, Opened
    <3>3. /\ depth - 1 \in found.nodes[x].depth .. depth
      BY <3>2
    <3>4. reach[found.nodes[x].depth] \subseteq reach[depth - 1]
      BY <3>2, <3>3, SpreadGrows
    <3> QED BY <1>9, <3>2, <3>4
  <2> QED BY <1>9, <2>1, FS_EmptySet
<1> QED BY <1>8, <1>9

-----------------------------------------------------------------------------
(* The trace: chains and orphans *)

\* The chain of a node's artifact starts at the first node that has it.
LEMMA ChainFacts ==
    ASSUME SearchTypeOK, NEW id \in nodes, NEW way, NEW depth
    PROVE  LET start == Min(WithArtifact(Artifact[id]))
               found == Search(start, way, depth)
           IN  /\ start \in nodes
               /\ Chain(Artifact[id], way, depth) =
                    [start |-> start, end |-> found.nodes[Len(found.nodes)].id,
                     nodes |-> found.nodes, edges |-> found.edges]
<1> DEFINE T == WithArtifact(Artifact[id])
<1>1. id \in T /\ T \subseteq nodes /\ T \in SUBSET Nat
  BY SearchAssumption DEF WithArtifact, SearchTypeOK
<1> HIDE DEF T
<1>2. PICK n \in T : \A k \in T : ~(k < n)
  BY <1>1, LeastOne
<1>3. \A k \in T : n <= k
  BY <1>1, <1>2
<1>4. Min(T) \in T
  BY <1>3 DEF Min
<1> QED BY <1>1, <1>4 DEF Chain, T

\* What is known of the search behind a chain.
LEMMA SearchSound ==
    ASSUME SearchTypeOK, NEW way \in Ways, NEW start \in nodes, NEW depth \in Nat
    PROVE  LET reach == Within(start, way, depth)
           IN  /\ reach \in [0 .. depth -> SUBSET nodes] /\ reach[0] = {start}
               /\ Spread(reach, way, depth)
               /\ Searched(Search(start, way, depth), start, reach, depth, way, Cardinality(nodes))
<1> DEFINE reach == Within(start, way, depth)
<1>1. /\ reach \in [0 .. depth -> SUBSET nodes] /\ reach[0] = {start}
      /\ Spread(reach, way, depth)
  BY WithinSpreads
<1> HIDE DEF reach
<1>2. Searched(Search(start, way, depth), start, reach, depth, way, Cardinality(nodes))
  BY <1>1, SearchRuns
<1> QED BY <1>1, <1>2 DEF reach

LEMMA TraceIsExact ==
    ASSUME SearchTypeOK, NEW way \in Ways, NEW depth \in Depths \ {0}, NEW id \in nodes
    PROVE  TraceExact(id, way, depth)
<1> DEFINE start == Min(WithArtifact(Artifact[id]))
           reach == Within(start, way, depth)
           found == Search(start, way, depth)
           chain == Chain(Artifact[id], way, depth)
<1>1. /\ start \in nodes
      /\ chain = [start |-> start, end |-> found.nodes[Len(found.nodes)].id,
                  nodes |-> found.nodes, edges |-> found.edges]
  BY ChainFacts
<1>2. depth \in Nat \ {0}
  BY SearchAssumption
<1> HIDE DEF start
<1>3. /\ reach \in [0 .. depth -> SUBSET nodes] /\ reach[0] = {start} /\ Spread(reach, way, depth)
      /\ Searched(found, start, reach, depth, way, Cardinality(nodes))
  BY <1>1, <1>2, SearchSound
<1> HIDE DEF reach, found, chain
<1>4. /\ chain.start = start /\ chain.end = found.nodes[Len(found.nodes)].id
      /\ chain.nodes = found.nodes /\ chain.edges = found.edges
  BY <1>1
<1>5. Visited(chain) = reach[depth] /\ Len(chain.nodes) = Cardinality(reach[depth])
  <2>1. Visited(chain) = Visited(found)
    BY <1>4 DEF Visited
  <2>2. Visited(found) = reach[depth] /\ Len(found.nodes) = Cardinality(reach[depth])
    BY <1>1, <1>2, <1>3, SearchFinds
  <2> QED BY <1>4, <2>1, <2>2
<1>6. \A k \in 0 .. depth : chain.end \in reach[k] => reach[k] = reach[depth]
  <2> SUFFICES ASSUME NEW k \in 0 .. depth, found.nodes[Len(found.nodes)].id \in reach[k]
               PROVE  reach[k] = reach[depth]
    BY <1>4
  <2> QED BY <1>1, <1>2, <1>3, EndIsFarthest
<1>7. ASSUME NEW i \in DOMAIN edges
      PROVE  Cardinality({j \in chain.edges : edges[j] = edges[i]})
               = (IF From(edges[i], way) \in reach[depth - 1] THEN 1 ELSE 0)
  <2>1. Cardinality({j \in found.edges : edges[j] = edges[i]})
               = (IF From(edges[i], way) \in reach[depth - 1] THEN 1 ELSE 0)
    BY <1>1, <1>2, <1>3, EdgesFound
  <2> QED BY <1>4, <2>1
<1> QED BY <1>4, <1>5, <1>6, <1>7 DEF TraceExact, start, reach, chain

\* A search of one link shows edges when its start has some.
LEMMA NearestEdges ==
    ASSUME SearchTypeOK, NEW way \in Ways, NEW start \in nodes
    PROVE  Search(start, way, 1).edges = {} <=> \A i \in DOMAIN edges : From(edges[i], way) # start
<1> DEFINE found == Search(start, way, 1)
           reach == Within(start, way, 1)
           N == Cardinality(nodes)
<1>1. /\ reach \in [0 .. 1 -> SUBSET nodes] /\ reach[0] = {start} /\ Spread(reach, way, 1)
      /\ Searched(found, start, reach, 1, way, N)
  BY SearchSound
<1> HIDE DEF found, reach
<1>2. /\ found \in Searches /\ Measures(found, reach, 1) /\ found.nodes[1] = Entry(start, 0)
      /\ 1 \in DOMAIN found.nodes
      /\ \A k : k \in found.edges <=> Traced(found, N, 1, way, k)
  BY <1>1 DEF Searched
<1>3. \A x \in DOMAIN found.nodes : x <= N
  BY <1>1, SearchFinds
<1>4. ASSUME NEW k \in found.edges PROVE \E i \in DOMAIN edges : From(edges[i], way) = start
  <2>1. PICK x \in DOMAIN found.nodes :
            /\ Opened(found, x, N, 1)
            /\ \E nb \in NearTo(found.nodes[x].id, way) : k = FirstEdge(found.nodes[x].id, nb, way)
    BY <1>2 DEF Traced
  <2>2. /\ found.nodes[x].depth \in 0 .. 1 /\ found.nodes[x].depth < 1
        /\ found.nodes[x].id \in reach[found.nodes[x].depth]
    BY <1>2, <2>1 DEF Measures, Opened
  <2>3. found.nodes[x].depth = 0
    BY <2>2
  <2>4. found.nodes[x].id = start
    BY <1>1, <2>2, <2>3
  <2> QED BY <2>1, <2>4 DEF NearTo
<1>5. ASSUME NEW i \in DOMAIN edges, From(edges[i], way) = start PROVE found.edges # {}
  <2>1. To(edges[i], way) \in NearTo(start, way)
    BY <1>5 DEF NearTo
  <2>2. found.nodes[1].id = start /\ found.nodes[1].depth = 0
    BY <1>2 DEF Entry
  <2>3. Opened(found, 1, N, 1)
    BY <1>2, <1>3, <2>2 DEF Opened
  <2>4. Traced(found, N, 1, way, FirstEdge(start, To(edges[i], way), way))
    BY <1>2, <2>1, <2>2, <2>3 DEF Traced
  <2> QED BY <1>2, <2>4
<1> QED BY <1>4, <1>5 DEF found

LEMMA OrphansAreUntraced == ASSUME SearchTypeOK, NEW id \in nodes PROVE OrphanUntraced(id)
<1> SUFFICES ASSUME id = Min(WithArtifact(Artifact[id]))
             PROVE  id \in Orphans <=> \A way \in Ways : Chain(Artifact[id], way, 1).edges = {}
  BY DEF OrphanUntraced
<1>1. ASSUME NEW way \in Ways PROVE Chain(Artifact[id], way, 1).edges = Search(id, way, 1).edges
  <2> DEFINE start == Min(WithArtifact(Artifact[id]))
             found == Search(start, way, 1)
             chain == Chain(Artifact[id], way, 1)
  <2>1. chain = [start |-> start, end |-> found.nodes[Len(found.nodes)].id,
                 nodes |-> found.nodes, edges |-> found.edges]
    BY ChainFacts
  <2>2. start = id
    OBVIOUS
  <2> HIDE DEF start, chain
  <2>3. chain.edges = found.edges
    BY <2>1
  <2> QED BY <2>2, <2>3 DEF chain
<1>2. \A way \in Ways : Chain(Artifact[id], way, 1).edges = {} <=>
          \A i \in DOMAIN edges : From(edges[i], way) # id
  BY <1>1, NearestEdges
<1>3. id \in Orphans <=> \A way \in Ways : \A i \in DOMAIN edges : From(edges[i], way) # id
  BY DEF Orphans, From, Ways
<1> QED BY <1>2, <1>3

LEMMA SearchesSound == ASSUME SearchTypeOK PROVE SearchExact
BY TraceIsExact, OrphansAreUntraced DEF SearchExact

LEMMA InitSearch == ASSUME SearchInit PROVE SearchTypeOK
BY FS_EmptySet, SearchAssumption DEF SearchInit, SearchTypeOK

LEMMA NextSearch == ASSUME SearchTypeOK, [SearchNext]_searchVars PROVE SearchTypeOK'
<1>1. ASSUME NEW id \in Ids, CreateNode(id) PROVE SearchTypeOK'
  BY <1>1, FS_AddElement DEF CreateNode, SearchTypeOK
<1>2. ASSUME NEW source \in Ids, NEW target \in Ids, LinkNodes(source, target) PROVE SearchTypeOK'
  <2> DEFINE e == [source |-> source, target |-> target]
  <2>1. e \in [source : Ids, target : Ids] /\ edges' = Append(edges, e) /\ UNCHANGED nodes
    BY <1>2 DEF LinkNodes
  <2> HIDE DEF e
  <2>2. /\ edges' \in Seq([source : Ids, target : Ids]) /\ Len(edges') = Len(edges) + 1
        /\ Len(edges) \in Nat
    BY <2>1, AppendProperties DEF SearchTypeOK
  <2>3. Len(edges') <= MaxLinks
    BY <1>2, <2>2, SearchAssumption DEF LinkNodes
  <2> QED BY <2>1, <2>2, <2>3 DEF SearchTypeOK
<1>3. ASSUME NEW id \in nodes, Reload(nodes \ {id}) PROVE SearchTypeOK'
  BY <1>3, FS_RemoveElement DEF Reload, SearchTypeOK
<1>4. CASE UNCHANGED searchVars
  BY <1>4 DEF searchVars, SearchTypeOK
<1> QED BY <1>1, <1>2, <1>3, <1>4 DEF SearchNext

-----------------------------------------------------------------------------
(* The trace: what follows for the program *)

\* The nodes and edges keep their types (trace/store.py:24).
THEOREM SearchTypes == SearchSpec => []SearchTypeOK
BY InitSearch, NextSearch, PTL DEF SearchSpec

\* A trace finds exactly what is linked within its depth (tracker.py:43,83),
\* and the orphans of a report are the nodes whose traces are empty (store.py:74).
THEOREM SearchesExact == SearchSpec => []SearchExact
BY SearchTypes, SearchesSound, PTL
=============================================================================
