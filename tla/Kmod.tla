-------------------------------- MODULE Kmod --------------------------------
(***************************************************************************)
(* Loading of kernel modules: src/src/kmod.rs.  The init process loads a   *)
(* fixed list at start-up; the kernel runs the same binary as modprobe     *)
(* whenever it misses a module, in a process of its own.  Each process has *)
(* its own LOADED_MODULES.  What is in a module's file and how it is       *)
(* compressed is left out: a file can be loaded or it cannot.              *)
(*                                                                         *)
(* An action is the handling of one name, or of one file: reading it and   *)
(* the kernel's init_module, which is atomic.                              *)
(***************************************************************************)
EXTENDS Wildcard, FiniteSets, SequencesExt

CONSTANTS
    Modules,
    Needs,       \* Needs[m]: the modules that m needs, directly or not
    Main,        \* the init process
    Helpers,     \* modprobe processes
    Required,    \* the names that load_required_modules goes through
    Strings,     \* what modprobe may be asked for, as sequences of characters
    Aliases,     \* what the kernel asks for of that
    AliasLines,  \* modules.alias: a sequence of patterns, each with a module
    MaxFailures, \* operations that fail in one boot
    None

Processes == {Main} \cup Helpers
Names == Modules \cup Aliases

ASSUME NeedsAssumption ==
    /\ IsFiniteSet(Modules)
    /\ Needs \in [Modules -> SUBSET Modules]
    /\ \A m \in Modules : m \notin Needs[m] /\ \A d \in Needs[m] : Needs[d] \subseteq Needs[m]
ASSUME NamesAssumption ==
    /\ Main \notin Helpers
    /\ Required \in Seq(Modules)
    /\ Strings \subseteq Seq(STRING) /\ Aliases \subseteq Strings
    /\ AliasLines \in Seq([pattern: Seq(STRING), module: Modules])
    /\ None \notin Names \cup Seq(Modules)
ASSUME FailuresAssumption == MaxFailures \in Nat

VARIABLES
    dep_lines,  \* dep_lines[m]: the line of modules.dep for m, or None
    kernel,     \* the modules in the kernel
    loaded,     \* loaded[p]: LOADED_MODULES of process p
    asked,      \* asked[p]: the names p has yet to load
    plan,       \* plan[p]: the files of modules.dep that p has yet to load
    failures,   \* history: how many operations have failed in this boot
    failed,     \* history: the modules whose file could not be loaded
    refused     \* history: the modules refused for want of what they need

processes == <<loaded, asked, plan>>
kmodVars == <<dep_lines, kernel, processes, failures, failed, refused>>

\* depmod lists everything that m needs, each before what it needs itself.
DepLines(m) ==
    {line \in [1 .. Cardinality(Needs[m]) -> Needs[m]] :
        /\ Range(line) = Needs[m]
        /\ \A i, j \in DOMAIN line : line[j] \in Needs[line[i]] => i < j}
HasModulesDep == \E m \in Modules : dep_lines[m] # None

KmodTypeOK ==
    /\ dep_lines \in [Modules -> Seq(Modules) \cup {None}]
    /\ kernel \subseteq Modules
    /\ loaded \in [Processes -> SUBSET Modules]
    /\ asked \in [Processes -> Seq(Names)]
    /\ plan \in [Processes -> Seq(Modules)]
    /\ failures \in 0 .. MaxFailures
    /\ failed \subseteq Modules /\ refused \subseteq Modules

\* What a boot starts from.
KmodBoot ==
    /\ kernel = {}
    /\ loaded = [p \in Processes |-> {}]
    /\ asked = [p \in Processes |-> <<>>]
    /\ plan = [p \in Processes |-> <<>>]
    /\ failures = 0
    /\ failed = {}
    /\ refused = {}

KmodReboot ==
    /\ kernel' = {}
    /\ loaded' = [p \in Processes |-> {}]
    /\ asked' = [p \in Processes |-> <<>>]
    /\ plan' = [p \in Processes |-> <<>>]
    /\ failures' = 0
    /\ failed' = {}
    /\ refused' = {}

Idle(p) == asked[p] = <<>> /\ plan[p] = <<>>

\* One more operation fails.
Fails == failures < MaxFailures /\ failures' = failures + 1
Succeeds == UNCHANGED failures
-----------------------------------------------------------------------------
(***************************************************************************)
(* load_module_with_dependencies                                           *)
(***************************************************************************)

\* The kernel takes a module that it has (EEXIST) or whose needs it has.
Accepts(m) == m \in kernel \/ Needs[m] \subseteq kernel

\* load_module: whether the file is read, decompressed and accepted.
LoadOK(m) ==
    /\ Accepts(m)
    /\ kernel' = kernel \cup {m}
    /\ Succeeds
    /\ UNCHANGED <<failed, refused>>

LoadFails(m) ==
    /\ \/ Fails /\ failed' = failed \cup {m} /\ UNCHANGED refused
       \/ ~Accepts(m) /\ refused' = refused \cup {m} /\ Succeeds /\ UNCHANGED failed
    /\ UNCHANGED kernel

\* The head of asked[p], once nothing is left of the name before it.
Asks(p, name) == plan[p] = <<>> /\ asked[p] # <<>> /\ name = Head(asked[p])
Handled(p) == asked' = [asked EXCEPT ![p] = Tail(@)] /\ UNCHANGED dep_lines

SkipLoaded(p, name) ==
    /\ Asks(p, name)
    /\ name \in loaded[p]
    /\ Handled(p)
    /\ UNCHANGED <<kernel, loaded, plan, failures, failed, refused>>

\* Without a line in modules.dep: one search for a file, and no dependencies.
\* The module is not noted in LOADED_MODULES.
LoadSingle(p, name) ==
    /\ Asks(p, name)
    /\ name \notin loaded[p]
    /\ name \in Modules => dep_lines[name] = None
    /\ Handled(p)
    /\ \/ name \in Modules /\ (LoadOK(name) \/ LoadFails(name))
       \/ name \notin Modules /\ UNCHANGED <<kernel, failures, failed, refused>>
    /\ UNCHANGED <<loaded, plan>>

\* Mistake: the dependencies are loaded in the order of the line.
FollowLineForward(p, name) ==
    /\ Asks(p, name)
    /\ name \in Modules \ loaded[p] /\ dep_lines[name] # None
    /\ plan' = [plan EXCEPT ![p] = Append(dep_lines[name], name)]
    /\ Handled(p)
    /\ UNCHANGED <<kernel, loaded, failures, failed, refused>>

\* The dependencies are loaded from right to left, the module last.
FollowLine(p, name) ==
    /\ Asks(p, name)
    /\ name \in Modules \ loaded[p] /\ dep_lines[name] # None
    /\ plan' = [plan EXCEPT ![p] = Append(Reverse(dep_lines[name]), name)]
    /\ Handled(p)
    /\ UNCHANGED <<kernel, loaded, failures, failed, refused>>

\* Mistake: a file is noted as loaded before it is.
LoadNextNotedFirst(p) ==
    /\ plan[p] # <<>>
    /\ plan' = [plan EXCEPT ![p] = Tail(@)]
    /\ LET m == Head(plan[p]) IN
          /\ loaded' = [loaded EXCEPT ![p] = @ \cup {m}]
          /\ \/ m \in loaded[p] /\ UNCHANGED <<kernel, failures, failed, refused>>
             \/ m \notin loaded[p] /\ (LoadOK(m) \/ LoadFails(m))
    /\ UNCHANGED <<dep_lines, asked>>

\* Mistake: the first file that cannot be loaded ends the list.
LoadNextOrStop(p) ==
    /\ plan[p] # <<>>
    /\ plan' = [plan EXCEPT ![p] = Tail(@)]
    /\ LET m == Head(plan[p]) IN
          \/ /\ m \in loaded[p]
             /\ UNCHANGED <<kernel, loaded, asked, failures, failed, refused>>
          \/ /\ m \notin loaded[p] /\ LoadOK(m)
             /\ loaded' = [loaded EXCEPT ![p] = @ \cup {m}]
             /\ UNCHANGED asked
          \/ /\ m \notin loaded[p] /\ LoadFails(m)
             /\ asked' = [asked EXCEPT ![p] = <<>>]
             /\ UNCHANGED loaded
    /\ UNCHANGED dep_lines

\* The next file of the plan; the rest of the plan goes on if it fails.
LoadNext(p) ==
    /\ plan[p] # <<>>
    /\ plan' = [plan EXCEPT ![p] = Tail(@)]
    /\ LET m == Head(plan[p]) IN
          \/ m \in loaded[p] /\ UNCHANGED <<kernel, loaded, failures, failed, refused>>
          \/ m \notin loaded[p] /\ LoadOK(m) /\ loaded' = [loaded EXCEPT ![p] = @ \cup {m}]
          \/ m \notin loaded[p] /\ LoadFails(m) /\ UNCHANGED loaded
    /\ UNCHANGED <<dep_lines, asked>>

LoaderStep(p) ==
    \/ \E name \in Names : SkipLoaded(p, name) \/ LoadSingle(p, name) \/ FollowLine(p, name)
    \/ LoadNext(p)
-----------------------------------------------------------------------------
(***************************************************************************)
(* run_as_modprobe                                                         *)
(***************************************************************************)

\* depmod writes modules.alias together with modules.dep.
Lines == IF HasModulesDep THEN AliasLines ELSE <<>>

\* The module of the first line that matches; else the alias is the name.
ResolveAlias(alias) ==
    LET i == SelectInSeq(Lines, LAMBDA line : WildcardMatch(line.pattern, alias))
    IN  IF i = 0 THEN alias ELSE Lines[i].module

\* The kernel starts a process to load what it misses.
StartHelper(p, alias) ==
    /\ Idle(p)
    /\ loaded' = [loaded EXCEPT ![p] = {}]
    /\ asked' = [asked EXCEPT ![p] = <<ResolveAlias(alias)>>]
    /\ UNCHANGED <<dep_lines, kernel, plan, failures, failed, refused>>
-----------------------------------------------------------------------------
(***************************************************************************)
(* Properties                                                              *)
(***************************************************************************)

\* What a process has noted as loaded is in the kernel: a failure is never
\* remembered as a success, which would keep the module from being tried again.
CacheIsTrue == \A p \in Processes : loaded[p] \subseteq kernel

\* Dependencies come first: where modules.dep is followed, the kernel refuses a
\* module for want of another only if that one's own file could not be loaded,
\* whichever processes load whatever at the same time.
DependenciesFirst ==
    \A m \in refused : dep_lines[m] # None => Needs[m] \cap failed # {}

\* What the first line of modules.alias whose pattern matches stands for.
RightModule(alias) ==
    LET hits == {i \in DOMAIN Lines : Matches(Lines[i].pattern, alias)}
    IN  IF hits = {} THEN alias ELSE Lines[Min(hits)].module
=============================================================================
