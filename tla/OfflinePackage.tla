----------------------------- MODULE OfflinePackage -----------------------------
(***************************************************************************)
(* fusion_code_modelization/offline/manager.py: OfflineManager, which      *)
(* prepares a package, validates it and fills the cache from it.  The      *)
(* commands of the command line do one of these each; the package may be   *)
(* damaged between them.                                                   *)
(*                                                                         *)
(* Abstractions: of a package there are its manifest, with the keys it     *)
(* names and whether its checksum agrees, differs or is not there, and the *)
(* directories in it; the mode that is detected decides nothing here.      *)
(***************************************************************************)
EXTENDS OfflineCache

VARIABLES package,  \* its manifest and its directories
          prepared  \* the keys of the last package that was finished

packageVars == <<package, prepared>>

\* What a package may have.
KeySets == {keys \in SUBSET Keys : IsFiniteSet(keys)}
Manifest == [keys : KeySets, checksum : {"agrees", "differs", "none"}]

PackageInit == /\ package = [manifest |-> Absent, folders |-> {}]
               /\ prepared = {}

\* prepare_offline_package: directories, which are added to those of an
\* older package, and then the manifest; it may stop after any of them.
Prepare(keys) ==
    /\ caching
    /\ \/ /\ package' = [manifest |-> Whole([keys |-> keys, checksum |-> "agrees"]),
                         folders  |-> package.folders \cup keys]
          /\ prepared' = keys
          /\ UNCHANGED <<caching, entries>>
       \/ /\ \/ \E made \in SUBSET keys : package' = [package EXCEPT !.folders = @ \cup made]
             \/ package' = [manifest |-> Torn, folders |-> package.folders \cup keys]
          /\ CacheEnds
          /\ UNCHANGED prepared
    /\ reply' = NoReply
    /\ UNCHANGED <<index, folders, time, cached>>

Readable == package.manifest.form = "whole"
Named == package.manifest.data.keys
Complete == Named \subseteq package.folders

\* Mutant: the checksum is not looked at.
ValidIfComplete == Readable /\ Complete

\* validate_package answers valid; a manifest without a checksum is not held
\* to one.
Valid == Readable /\ package.manifest.data.checksum # "differs" /\ Complete

Validate ==
    /\ caching
    /\ reply' = [op |-> "validate", valid |-> Valid]
    /\ UNCHANGED <<index, caching, entries, folders, time, cached, package, prepared>>

\* The entries when these keys have been cached without a source, in order.
WithKeys(order) ==
    LET after[n \in 0 .. Len(order)] ==
          IF n = 0 THEN entries
          ELSE Put(after[n - 1], [key |-> order[n], size |-> 0, at |-> time])
    IN  after[Len(order)]

\* restore_from_package: every key is cached in turn, each with a save of
\* its own.  Neither the checksum nor the directories matter.
Restore ==
    /\ caching /\ Readable
    /\ \E order \in SetToSeqs(Named), done \in 0 .. Cardinality(Named) :
         LET first == SubSeq(order, 1, done)
             keys == ToSet(first)
         IN  /\ folders' = folders \cup keys
             /\ cached' = [key \in Keys |-> IF key \in keys THEN time ELSE cached[key]]
             /\ \/ /\ done = Len(order)
                   /\ GoesOn(WithKeys(first))
                   /\ index' = (IF keys = {} THEN index ELSE Whole(WithKeys(first)))
                   /\ reply' = [op |-> "restore", keys |-> keys]
                \/ /\ done > 0
                   /\ CacheEnds
                   /\ index' \in {Whole(WithKeys(first)), Torn}
                   /\ reply' = NoReply
    /\ UNCHANGED <<time, package, prepared>>

\* A package is damaged on its way: a directory is missing, or the manifest
\* is still JSON and no longer what its checksum says, or has lost it.
Damage ==
    /\ \/ \E key \in package.folders : package' = [package EXCEPT !.folders = @ \ {key}]
       \/ /\ Readable
          /\ \E keys \in KeySets, checksum \in {"differs", "none"} :
               package' = [package EXCEPT !.manifest = Whole([keys |-> keys, checksum |-> checksum])]
    /\ reply' = NoReply
    /\ UNCHANGED <<index, caching, entries, folders, time, cached, prepared>>

PackageNext == \/ CacheNext /\ UNCHANGED packageVars
               \/ \E keys \in KeySets : Prepare(keys)
               \/ Validate \/ Restore \/ Damage

PackageSpec == CacheInit /\ PackageInit /\ [][PackageNext]_<<cacheVars, packageVars>>

-----------------------------------------------------------------------------
(* Properties *)

\* The variables keep their types.
PackageTypeOK ==
    /\ CacheTypeOK
    /\ package \in [manifest : Files(Manifest), folders : SUBSET Keys]
    /\ prepared \in KeySets

Checksummed == Readable /\ package.manifest.data.checksum # "none"

\* A package that validates is the one that was prepared last, whatever was
\* interrupted or damaged since, and what is restored from it is in the
\* index, as long as its manifest has a checksum: one that has lost it is
\* taken for valid with whatever keys it names (manager.py:151,129).
ValidIsPrepared ==
    Checksummed =>
        /\ reply.op = "validate" /\ reply.valid => Named = prepared
        /\ reply.op = "restore" /\ Valid =>
             \A key \in prepared : HasKey(Contents(index), key)
=============================================================================
