----------------------------- MODULE MCStateFiles -----------------------------
(* The components that keep what they know in one file of their own, on small *)
(* sets for TLC: the plugins, the offline cache, the packages it is filled    *)
(* from, the load balancer, the searches through the trace, and the server.   *)
(* They do not share state, so that a behaviour is one of a single component: *)
(* the part that is chosen at the beginning.                                  *)
EXTENDS PluginManager, OfflinePackage, LoadBalancer, TraceSearch, Server

CONSTANT Packed  \* the keys of packages, which are cached without a source and at one time

VARIABLE part

filesVars == <<part, pluginVars, cacheVars, packageVars, balancerVars, searchVars, vars>>

\* What is measured of a node: a free one, and a full one that weighs more.
MCLoads == {[percent |-> 10, active |-> 3, max |-> 4, weight |-> 1],
            [percent |-> 90, active |-> 1, max |-> 4, weight |-> 3]}

\* Two artifacts share their identifier, so that a search begins at the first.
MCArtifact == <<"a1", "a2", "a1", "a3">>

FilesInit == /\ part \in {"plugins", "cache", "packages", "balancer", "searches", "server"}
             /\ PluginInit /\ CacheInit /\ PackageInit /\ BalancerInit /\ SearchInit /\ Init

FilesNext ==
    /\ UNCHANGED part
    /\ \/ /\ part = "plugins" /\ PluginNext
          /\ UNCHANGED <<cacheVars, packageVars, balancerVars, searchVars, vars>>
       \/ /\ part = "cache" /\ CacheNext
          /\ UNCHANGED <<pluginVars, packageVars, balancerVars, searchVars, vars>>
       \/ /\ part = "packages" /\ PackageNext
          /\ UNCHANGED <<pluginVars, balancerVars, searchVars, vars>>
       \/ /\ part = "balancer" /\ BalancerNext
          /\ UNCHANGED <<pluginVars, cacheVars, packageVars, searchVars, vars>>
       \/ /\ part = "searches" /\ SearchNext
          /\ UNCHANGED <<pluginVars, cacheVars, packageVars, balancerVars, vars>>
       \/ /\ part = "server" /\ Next
          /\ UNCHANGED <<pluginVars, cacheVars, packageVars, balancerVars, searchVars>>

FilesSpec == FilesInit /\ [][FilesNext]_filesVars

\* A program and commands beside it, or commands only.
OneProgram == \A p, q \in Processes : IsProgram(p) /\ IsProgram(q) => p = q

\* Packages are of few keys, at one time, so that the states stay few.
FewPacked == part = "packages" =>
    /\ time = 0
    /\ folders \cup package.folders \cup (IF Readable THEN Named ELSE {}) \subseteq Packed
    /\ \A i \in DOMAIN entries : entries[i].size = 0
=============================================================================
