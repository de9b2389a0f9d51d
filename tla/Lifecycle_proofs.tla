-------------------------- MODULE Lifecycle_proofs --------------------------
(***************************************************************************)
(* Theorems about the init process and the loading of modules, for every   *)
(* set of modules, helpers and aliases and any number of failures.         *)
(***************************************************************************)
EXTENDS Lifecycle, Wildcard_proofs, FiniteSetTheorems

-----------------------------------------------------------------------------
(***************************************************************************)
(* Kernel modules                                                          *)
(***************************************************************************)

\* What a module needs is, for each file of a plan, earlier in the plan, or
\* has been tried: it is in the kernel, has failed or was refused.
PlanOrdered ==
    \A p \in Processes : \A i \in 1 .. Len(plan[p]) : \A d \in Needs[plan[p][i]] :
        d \in kernel \cup failed \cup refused \/ \E j \in 1 .. i - 1 : plan[p][j] = d

\* modules.dep is complete, or missing.
DepLinesOK ==
    \/ \A m \in Modules : dep_lines[m] = None
    \/ \A m \in Modules : dep_lines[m] \in DepLines(m) /\ dep_lines[m] # None

KmodInv ==
    KmodTypeOK /\ DepLinesOK /\ CacheIsTrue /\ PlanOrdered /\ DependenciesFirst

\* A nonempty set of naturals has a least element, which Min returns.
LEMMA LeastOfNaturals ==
    ASSUME NEW S, S \subseteq Nat, S # {}
    PROVE  Min(S) \in S
<1>1. PICK x \in S : \A y \in S : ~(<<y, x>> \in OpToRel(<, Nat))
  BY NatLessThanWellFounded, WFMin
<1>2. \A y \in S : x =< y
  <2> SUFFICES ASSUME NEW y \in S PROVE x =< y
    OBVIOUS
  <2>1. y \in Nat /\ x \in Nat
    OBVIOUS
  <2>2. <<y, x>> \notin OpToRel(<, Nat)
    BY <1>1
  <2>3. ~(y < x)
    BY <2>1, <2>2, Zenon DEF OpToRel
  <2> QED BY <2>1, <2>3
<1> QED BY <1>2, Zenon DEF Min

\* A line of modules.dep is a sequence of all that the module needs.
LEMMA DepLineSeq ==
    ASSUME NEW m \in Modules, NEW line \in DepLines(m)
    PROVE  /\ line \in Seq(Modules)
           /\ \A d \in Needs[m] : \E i \in 1 .. Len(line) : line[i] = d
           /\ \A i \in 1 .. Len(line) : line[i] \in Needs[m]
<1>1. Needs[m] \subseteq Modules
  BY NeedsAssumption
<1>2. Cardinality(Needs[m]) \in Nat
  BY <1>1, NeedsAssumption, FS_Subset, FS_CardinalityType
<1>3. line \in Seq(Needs[m]) /\ Len(line) = Cardinality(Needs[m])
  BY <1>2 DEF DepLines
<1>4. \A i \in 1 .. Len(line) : line[i] \in Needs[m]
  BY <1>2, <1>3 DEF DepLines
<1>5. \A d \in Needs[m] : \E i \in 1 .. Len(line) : line[i] = d
  BY <1>2, <1>3 DEF DepLines, Range
<1>6. line \in Seq(Modules)
  BY <1>1, <1>3
<1> QED BY <1>4, <1>5, <1>6

\* What is read from right to left are the same files.
LEMMA ReversedLine ==
    ASSUME NEW m \in Modules, NEW line \in DepLines(m)
    PROVE  /\ Reverse(line) \in Seq(Modules) /\ Len(Reverse(line)) = Len(line)
           /\ \A i \in 1 .. Len(line) : Reverse(line)[i] = line[Len(line) - i + 1]
<1> DEFINE n == Len(line)
<1>1. line \in Seq(Modules) /\ n \in Nat
  BY DepLineSeq
<1>2. Reverse(line) = [i \in 1 .. n |-> line[n - i + 1]]
  BY DEF Reverse
<1>3. \A i \in 1 .. n : n - i + 1 \in 1 .. n
  BY <1>1
<1>4. \A i \in 1 .. n : line[i] \in Modules
  BY <1>1
<1> HIDE DEF n
<1>5. Reverse(line) \in [1 .. n -> Modules]
  BY <1>2, <1>3, <1>4
<1>6. /\ Reverse(line) \in Seq(Modules) /\ Len(Reverse(line)) = n
      /\ \A i \in 1 .. n : Reverse(line)[i] = line[n - i + 1]
  BY <1>1, <1>2, <1>5
<1> QED BY <1>6 DEF n

\* A sequence of files each of which comes after all that it needs.
IsPlan(files) ==
    /\ files \in Seq(Modules)
    /\ \A i \in 1 .. Len(files) : \A d \in Needs[files[i]] :
          \E j \in 1 .. i - 1 : files[j] = d

\* The plan for a module: what it needs from right to left, then itself.
LEMMA PlanOfLine ==
    ASSUME NEW m \in Modules, NEW line \in DepLines(m)
    PROVE  IsPlan(Append(Reverse(line), m))
<1> SUFFICES ASSUME NEW new, new = Append(Reverse(line), m) PROVE IsPlan(new)
  OBVIOUS
<1> DEFINE n == Len(line)
<1>1. /\ line \in Seq(Modules) /\ n \in Nat
      /\ \A d \in Needs[m] : \E i \in 1 .. n : line[i] = d
      /\ \A i \in 1 .. n : line[i] \in Needs[m]
  BY DepLineSeq
<1>2. /\ Reverse(line) \in Seq(Modules) /\ Len(Reverse(line)) = n
      /\ \A i \in 1 .. n : Reverse(line)[i] = line[n - i + 1]
  BY ReversedLine
<1>3. /\ new \in Seq(Modules) /\ Len(new) = n + 1 /\ new[n + 1] = m
      /\ \A i \in 1 .. n : new[i] = line[n - i + 1]
  BY <1>1, <1>2
<1>4. ASSUME NEW i \in 1 .. n + 1, NEW d \in Needs[new[i]]
      PROVE  \E j \in 1 .. i - 1 : new[j] = d
  <2>1. CASE i = n + 1
    <3>1. PICK k \in 1 .. n : line[k] = d
      BY <1>1, <1>3, <1>4, <2>1
    <3>2. n - k + 1 \in 1 .. n /\ n - (n - k + 1) + 1 = k
      BY <1>1
    <3>3. new[n - k + 1] = d
      BY <1>3, <3>1, <3>2
    <3>4. n - k + 1 \in 1 .. i - 1
      BY <1>1, <2>1, <3>2
    <3> QED BY <3>3, <3>4
  <2>2. CASE i \in 1 .. n
    <3> DEFINE h == n - i + 1
    <3>1. h \in 1 .. n /\ new[i] = line[h] /\ line[h] \in Needs[m]
      BY <1>1, <1>3, <2>2
    <3>2. Needs[line[h]] \subseteq Needs[m]
      BY <3>1, NeedsAssumption
    <3>3. PICK k \in 1 .. n : line[k] = d
      BY <1>1, <1>4, <3>1, <3>2
    <3>4. line[k] \in Needs[line[h]]
      BY <1>4, <3>1, <3>3
    <3>5. DOMAIN line = 1 .. n
      BY <1>1
    <3>6. h < k
      BY <3>1, <3>3, <3>4, <3>5 DEF DepLines
    <3>7. n - k + 1 \in 1 .. n /\ n - k + 1 \in 1 .. i - 1 /\ n - (n - k + 1) + 1 = k
      BY <1>1, <2>2, <3>6
    <3> HIDE DEF h
    <3> QED BY <1>3, <3>3, <3>7
  <2>3. n \in Nat /\ (i = n + 1 \/ i \in 1 .. n)
    BY <1>1
  <2> QED BY <2>1, <2>2, <2>3
<1> QED BY <1>1, <1>3, <1>4 DEF IsPlan

\* load_module on the file of a module whose needs have been tried: a refusal
\* goes back to a file that failed.
LEMMA LoadTries ==
    ASSUME KmodInv, NEW m \in Modules, LoadOK(m) \/ LoadFails(m),
           UNCHANGED dep_lines,
           dep_lines[m] # None =>
              \A d \in Needs[m] : d \in kernel \cup failed \cup refused
    PROVE  /\ kernel' \subseteq Modules /\ kernel \subseteq kernel'
           /\ failed' \subseteq Modules /\ failed \subseteq failed'
           /\ refused' \subseteq Modules /\ refused \subseteq refused'
           /\ m \in kernel' \cup failed' \cup refused'
           /\ LoadOK(m) => m \in kernel'
           /\ failures' \in 0 .. MaxFailures
           /\ DependenciesFirst'
<1>1. CASE LoadOK(m)
  BY <1>1 DEF LoadOK, Succeeds, KmodInv, KmodTypeOK, DependenciesFirst
<1>2. CASE LoadFails(m)
  <2>1. CASE Fails /\ failed' = failed \cup {m} /\ UNCHANGED <<refused, kernel>>
    <3>1. failures' \in 0 .. MaxFailures
      BY <2>1, FailuresAssumption DEF Fails, KmodInv, KmodTypeOK
    <3> QED BY <2>1, <3>1 DEF KmodInv, KmodTypeOK, DependenciesFirst, LoadOK
  <2>2. CASE ~Accepts(m) /\ refused' = refused \cup {m} /\ Succeeds /\ UNCHANGED <<failed, kernel>>
    <3>1. dep_lines[m] # None => Needs[m] \cap failed # {}
      <4> SUFFICES ASSUME dep_lines[m] # None PROVE Needs[m] \cap failed # {}
        OBVIOUS
      <4>1. PICK d \in Needs[m] : d \notin kernel
        BY <2>2 DEF Accepts
      <4>2. CASE d \in failed
        BY <4>2
      <4>3. CASE d \in refused
        <5>1. d \in Modules /\ Needs[d] \subseteq Needs[m]
          BY NeedsAssumption
        <5>2. Needs[d] \cap failed # {}
          <6>1. dep_lines[d] # None => Needs[d] \cap failed # {}
            BY <4>3 DEF KmodInv, DependenciesFirst
          <6> QED BY <6>1, <5>1 DEF KmodInv, DepLinesOK
        <5> QED BY <5>1, <5>2
      <4> QED BY <4>1, <4>2, <4>3
    <3> QED BY <2>2, <3>1 DEF Succeeds, KmodInv, KmodTypeOK, DependenciesFirst, LoadOK, Accepts
  <2> QED BY <1>2, <2>1, <2>2 DEF LoadFails
<1> QED BY <1>1, <1>2

\* What a process has yet to do shrinks by a name or a file.
LEMMA TailOfAsked ==
    ASSUME KmodTypeOK, NEW p \in Processes, asked[p] # <<>>, Handled(p)
    PROVE  asked' \in [Processes -> Seq(Names)]
<1>1. Tail(asked[p]) \in Seq(Names)
  BY DEF KmodTypeOK
<1> QED BY <1>1 DEF KmodTypeOK, Handled

LEMMA LoadSingleInv ==
    ASSUME KmodInv, NEW p \in Processes, NEW name \in Names, LoadSingle(p, name)
    PROVE  KmodInv'
<1>1. /\ asked' \in [Processes -> Seq(Names)]
      /\ UNCHANGED <<dep_lines, loaded, plan>>
  BY TailOfAsked DEF LoadSingle, Asks, Handled, KmodInv
<1>2. CASE name \in Modules /\ (LoadOK(name) \/ LoadFails(name))
  <2>1. dep_lines[name] = None
    BY <1>2 DEF LoadSingle
  <2>2. /\ kernel' \subseteq Modules /\ kernel \subseteq kernel'
        /\ failed' \subseteq Modules /\ failed \subseteq failed'
        /\ refused' \subseteq Modules /\ refused \subseteq refused'
        /\ failures' \in 0 .. MaxFailures /\ DependenciesFirst'
    BY <1>1, <1>2, <2>1, LoadTries
  <2>3. KmodTypeOK'
    BY <1>1, <2>2 DEF KmodInv, KmodTypeOK
  <2>4. CacheIsTrue'
    BY <1>1, <2>2 DEF KmodInv, CacheIsTrue
  <2>5. PlanOrdered'
    BY <1>1, <2>2 DEF KmodInv, PlanOrdered
  <2> QED BY <1>1, <2>2, <2>3, <2>4, <2>5 DEF KmodInv, DepLinesOK
<1>3. CASE name \notin Modules /\ UNCHANGED <<kernel, failures, failed, refused>>
  BY <1>1, <1>3 DEF KmodInv, KmodTypeOK, DepLinesOK, CacheIsTrue, PlanOrdered, DependenciesFirst
<1> QED BY <1>2, <1>3 DEF LoadSingle

LEMMA FollowLineInv ==
    ASSUME KmodInv, NEW p \in Processes, NEW name \in Names, FollowLine(p, name)
    PROVE  KmodInv'
<1> DEFINE new == Append(Reverse(dep_lines[name]), name)
<1>1. /\ asked' \in [Processes -> Seq(Names)]
      /\ UNCHANGED <<dep_lines, kernel, loaded, failures, failed, refused>>
  BY TailOfAsked DEF FollowLine, Asks, Handled, KmodInv
<1>2. name \in Modules /\ dep_lines[name] \in DepLines(name)
  BY DEF FollowLine, KmodInv, DepLinesOK
<1>3. IsPlan(new)
  BY <1>2, PlanOfLine
<1>4. plan' = [plan EXCEPT ![p] = new]
  BY DEF FollowLine
<1> HIDE DEF new
<1>5. plan' \in [Processes -> Seq(Modules)]
  BY <1>3, <1>4 DEF KmodInv, KmodTypeOK, IsPlan
<1>6. PlanOrdered'
  <2> SUFFICES ASSUME NEW q \in Processes, NEW i \in 1 .. Len(plan'[q]), NEW d \in Needs[plan'[q][i]]
               PROVE  d \in kernel \cup failed \cup refused \/ \E j \in 1 .. i - 1 : plan'[q][j] = d
    BY <1>1 DEF PlanOrdered
  <2>1. CASE q = p
    <3>1. plan'[q] = new
      BY <1>4, <2>1 DEF KmodInv, KmodTypeOK
    <3> QED BY <1>3, <3>1 DEF IsPlan
  <2>2. CASE q # p
    <3>1. plan'[q] = plan[q]
      BY <1>4, <2>2 DEF KmodInv, KmodTypeOK
    <3> QED BY <3>1 DEF KmodInv, PlanOrdered
  <2> QED BY <2>1, <2>2
<1> QED BY <1>1, <1>5, <1>6 DEF KmodInv, KmodTypeOK, DepLinesOK, CacheIsTrue, DependenciesFirst

LEMMA LoadNextInv ==
    ASSUME KmodInv, NEW p \in Processes, LoadNext(p)
    PROVE  KmodInv'
<1> DEFINE m == Head(plan[p])
<1>1. /\ plan[p] \in Seq(Modules) /\ plan[p] # <<>> /\ Len(plan[p]) \in Nat /\ Len(plan[p]) >= 1
      /\ m = plan[p][1] /\ m \in Modules
      /\ UNCHANGED <<dep_lines, asked>>
      /\ plan' = [plan EXCEPT ![p] = Tail(plan[p])]
  BY DEF LoadNext, KmodInv, KmodTypeOK
<1>2. /\ plan' \in [Processes -> Seq(Modules)]
      /\ \A q \in Processes : q # p => plan'[q] = plan[q]
      /\ plan'[p] = Tail(plan[p])
  BY <1>1 DEF KmodInv, KmodTypeOK
<1>3. /\ Len(plan'[p]) = Len(plan[p]) - 1
      /\ \A i \in 1 .. Len(plan'[p]) : plan'[p][i] = plan[p][i + 1]
  BY <1>1, <1>2
<1>4. \A d \in Needs[m] : d \in kernel \cup failed \cup refused
  <2> SUFFICES ASSUME NEW d \in Needs[m] PROVE d \in kernel \cup failed \cup refused
    OBVIOUS
  <2>1. 1 \in 1 .. Len(plan[p]) /\ 1 .. 1 - 1 = {}
    BY <1>1
  <2> QED BY <1>1, <2>1 DEF KmodInv, PlanOrdered
<1> HIDE DEF m
<1>5. /\ kernel' \subseteq Modules /\ kernel \subseteq kernel'
      /\ failed' \subseteq Modules /\ failed \subseteq failed'
      /\ refused' \subseteq Modules /\ refused \subseteq refused'
      /\ m \in kernel' \cup failed' \cup refused'
      /\ failures' \in 0 .. MaxFailures /\ DependenciesFirst'
      /\ \/ UNCHANGED loaded
         \/ m \in kernel' /\ loaded' = [loaded EXCEPT ![p] = @ \cup {m}]
  <2>1. CASE m \in loaded[p] /\ UNCHANGED <<kernel, loaded, failures, failed, refused>>
    BY <1>1, <2>1 DEF KmodInv, KmodTypeOK, CacheIsTrue, DependenciesFirst
  <2>2. CASE LoadOK(m) /\ loaded' = [loaded EXCEPT ![p] = @ \cup {m}]
    BY <1>1, <1>4, <2>2, LoadTries
  <2>3. CASE LoadFails(m) /\ UNCHANGED loaded
    BY <1>1, <1>4, <2>3, LoadTries
  <2> QED BY <2>1, <2>2, <2>3 DEF LoadNext, m
<1>6. KmodTypeOK'
  <2>1. loaded \in [Processes -> SUBSET Modules]
    BY DEF KmodInv, KmodTypeOK
  <2>2. loaded[p] \cup {m} \in SUBSET Modules
    BY <1>1, <2>1
  <2>3. loaded' \in [Processes -> SUBSET Modules]
    BY <1>5, <2>1, <2>2
  <2> QED BY <1>1, <1>2, <1>5, <2>3 DEF KmodInv, KmodTypeOK
<1>7. CacheIsTrue'
  BY <1>5 DEF KmodInv, KmodTypeOK, CacheIsTrue
<1>8. PlanOrdered'
  <2> SUFFICES ASSUME NEW q \in Processes, NEW i \in 1 .. Len(plan'[q]), NEW d \in Needs[plan'[q][i]]
               PROVE  \/ d \in kernel' \cup failed' \cup refused'
                      \/ \E j \in 1 .. i - 1 : plan'[q][j] = d
    BY DEF PlanOrdered
  <2>1. CASE q # p
    BY <1>2, <1>5, <2>1 DEF KmodInv, PlanOrdered
  <2>2. CASE q = p
    <3>1. i + 1 \in 1 .. Len(plan[p]) /\ plan'[q][i] = plan[p][i + 1]
      BY <1>1, <1>3, <2>2
    <3>2. \/ d \in kernel \cup failed \cup refused
          \/ \E j \in 1 .. i + 1 - 1 : plan[p][j] = d
      BY <3>1 DEF KmodInv, PlanOrdered
    <3>3. CASE d \in kernel \cup failed \cup refused
      BY <1>5, <3>3
    <3>4. CASE \E j \in 1 .. i + 1 - 1 : plan[p][j] = d
      <4>1. PICK j \in 1 .. i : plan[p][j] = d
        BY <3>4
      <4>2. CASE j = 1
        BY <1>1, <1>5, <4>1, <4>2
      <4>3. CASE j # 1
        <5>1. j - 1 \in 1 .. i - 1 /\ j - 1 \in 1 .. Len(plan'[p]) /\ (j - 1) + 1 = j
          BY <4>3, <2>2
        <5>2. plan'[q][j - 1] = d
          BY <1>3, <2>2, <4>1, <5>1
        <5> QED BY <5>1, <5>2
      <4> QED BY <4>2, <4>3
    <3> QED BY <3>2, <3>3, <3>4
  <2> QED BY <2>1, <2>2
<1> QED BY <1>1, <1>5, <1>6, <1>7, <1>8 DEF KmodInv, DepLinesOK

LEMMA LoaderInv ==
    ASSUME KmodInv, NEW p \in Processes, LoaderStep(p)
    PROVE  KmodInv'
<1>1. ASSUME NEW name \in Names, SkipLoaded(p, name)
      PROVE  KmodInv'
  <2>1. asked' \in [Processes -> Seq(Names)]
    BY <1>1, TailOfAsked DEF SkipLoaded, Asks, KmodInv
  <2> QED BY <1>1, <2>1 DEF SkipLoaded, Handled, KmodInv, KmodTypeOK, DepLinesOK,
                            CacheIsTrue, PlanOrdered, DependenciesFirst
<1> QED BY <1>1, LoadSingleInv, FollowLineInv, LoadNextInv DEF LoaderStep

\* Nothing that the invariant of the loaders is about changes, but for the
\* number of failures.
LEMMA NotLoading ==
    ASSUME KmodInv, failures' \in 0 .. MaxFailures,
           UNCHANGED <<dep_lines, kernel, loaded, asked, plan, failed, refused>>
    PROVE  KmodInv'
BY DEF KmodInv, KmodTypeOK, DepLinesOK, CacheIsTrue, PlanOrdered, DependenciesFirst

LEMMA FailuresCounted ==
    ASSUME KmodInv, Fails \/ Succeeds
    PROVE  failures' \in 0 .. MaxFailures
BY FailuresAssumption DEF KmodInv, KmodTypeOK, Fails, Succeeds

\* After a boot no process has anything to do.
LEMMA FreshLoaders ==
    ASSUME KmodInv, KmodReboot, UNCHANGED dep_lines
    PROVE  KmodInv'
<1>1. KmodTypeOK'
  BY FailuresAssumption DEF KmodInv, KmodTypeOK, KmodReboot
<1>2. PlanOrdered'
  BY DEF KmodReboot, PlanOrdered
<1> QED BY <1>1, <1>2 DEF KmodInv, DepLinesOK, KmodReboot, CacheIsTrue, DependenciesFirst

\* The first line of modules.alias whose pattern matches is the one that decides.
LEMMA FirstLineDecides ==
    ASSUME NEW alias \in Strings
    PROVE  ResolveAlias(alias) = RightModule(alias)
<1> DEFINE hits == {i \in 1 .. Len(Lines) : WildcardMatch(Lines[i].pattern, alias)}
           right == {i \in DOMAIN Lines : Matches(Lines[i].pattern, alias)}
<1>1. Lines \in Seq([pattern: Seq(STRING), module: Modules])
  BY NamesAssumption DEF Lines
<1>2. \A i \in 1 .. Len(Lines) : Lines[i] \in [pattern: Seq(STRING), module: Modules]
  <2>1. \A S : \A seq \in Seq(S) : \A i \in 1 .. Len(seq) : seq[i] \in S
    OBVIOUS
  <2> QED BY <1>1, <2>1, Zenon
<1>3. \A i \in 1 .. Len(Lines) :
        WildcardMatch(Lines[i].pattern, alias) <=> Matches(Lines[i].pattern, alias)
  <2> SUFFICES ASSUME NEW i \in 1 .. Len(Lines)
               PROVE  WildcardMatch(Lines[i].pattern, alias) <=> Matches(Lines[i].pattern, alias)
    OBVIOUS
  <2>1. alias \in Seq(STRING) /\ Lines[i].pattern \in Seq(STRING)
    BY <1>2, NamesAssumption
  <2> QED BY <2>1, WildcardMatchIsRight, Zenon
<1>4. DOMAIN Lines = 1 .. Len(Lines)
  BY <1>1
<1>5. hits = right
  BY <1>3, <1>4, Zenon
<1>6. ResolveAlias(alias) =
        LET i == IF hits # {} THEN Min(hits) ELSE 0
        IN  IF i = 0 THEN alias ELSE Lines[i].module
  BY Zenon DEF ResolveAlias, SelectInSeq
<1>7. RightModule(alias) = IF right = {} THEN alias ELSE Lines[Min(right)].module
  BY Zenon DEF RightModule
<1>8. hits # {} => Min(hits) # 0
  <2>1. Len(Lines) \in Nat
    BY <1>1
  <2>2. hits \subseteq Nat /\ hits \subseteq 1 .. Len(Lines)
    BY <2>1
  <2> HIDE DEF hits
  <2>3. SUFFICES ASSUME hits # {} PROVE Min(hits) # 0
    OBVIOUS
  <2>4. Min(hits) \in 1 .. Len(Lines)
    BY <2>2, <2>3, LeastOfNaturals
  <2> QED BY <2>1, <2>4
<1> HIDE DEF hits, right
<1> QED BY <1>5, <1>6, <1>7, <1>8

\* What a helper is asked for is a module or the alias itself.
LEMMA AliasType ==
    ASSUME NEW alias \in Aliases
    PROVE  ResolveAlias(alias) \in Names
<1> DEFINE right == {i \in DOMAIN Lines : Matches(Lines[i].pattern, alias)}
<1>1. /\ Lines \in Seq([pattern: Seq(STRING), module: Modules])
      /\ Len(Lines) \in Nat /\ DOMAIN Lines = 1 .. Len(Lines)
  BY NamesAssumption DEF Lines
<1>2. right \subseteq 1 .. Len(Lines) /\ right \subseteq Nat
  BY <1>1
<1>3. ResolveAlias(alias) = IF right = {} THEN alias ELSE Lines[Min(right)].module
  <2>1. alias \in Strings
    BY NamesAssumption
  <2>2. RightModule(alias) = IF right = {} THEN alias ELSE Lines[Min(right)].module
    BY Zenon DEF RightModule
  <2> QED BY <2>1, <2>2, FirstLineDecides, Zenon
<1> HIDE DEF right
<1>4. CASE right = {}
  BY <1>3, <1>4 DEF Names
<1>5. CASE right # {}
  <2>1. Min(right) \in 1 .. Len(Lines)
    BY <1>2, <1>5, LeastOfNaturals
  <2>2. \A i \in 1 .. Len(Lines) : Lines[i] \in [pattern: Seq(STRING), module: Modules]
    <3>1. \A S : \A seq \in Seq(S) : \A i \in 1 .. Len(seq) : seq[i] \in S
      OBVIOUS
    <3> QED BY <1>1, <3>1, Zenon
  <2>3. Lines[Min(right)].module \in Modules
    BY <2>1, <2>2
  <2> QED BY <1>3, <1>5, <2>3 DEF Names
<1> QED BY <1>4, <1>5

LEMMA HelperInv ==
    ASSUME KmodInv, NEW p \in Helpers, NEW alias \in Aliases, StartHelper(p, alias)
    PROVE  KmodInv'
<1>1. p \in Processes /\ <<ResolveAlias(alias)>> \in Seq(Names)
  BY AliasType DEF Processes
<1>2. KmodTypeOK'
  BY <1>1 DEF StartHelper, KmodInv, KmodTypeOK
<1>3. CacheIsTrue'
  BY <1>1 DEF StartHelper, KmodInv, KmodTypeOK, CacheIsTrue
<1> QED BY <1>2, <1>3 DEF StartHelper, KmodInv, DepLinesOK, PlanOrdered, DependenciesFirst
-----------------------------------------------------------------------------
(***************************************************************************)
(* The inductive invariant of the init process.  Init may exit, and the    *)
(* machine crash, only along a path on which the emergency reboot was      *)
(* refused; the reaper that has no stream yet has no SIGCHLD to rely on,   *)
(* so that whatever died before is backlog.                                *)
(***************************************************************************)
Stopped == machine # "up" => stage = "mount" /\ monitor = "new"

EndsHopeless ==
    machine = "crashed" \/ stage = "returned" \/ monitor = "done" => hopeless

ReaperInv ==
    /\ reaper = "new" => ~stream
    /\ ~stream /\ zombies > 0 => backlog
    /\ NoZombieUnnoticed

LifeInv ==
    /\ LifecycleTypeOK /\ KmodInv
    /\ Stopped /\ EndsHopeless /\ ReaperInv

Booleans ==
    /\ autoload \in BOOLEAN /\ shutdown_flag \in BOOLEAN /\ hopeless \in BOOLEAN
    /\ stream \in BOOLEAN /\ sigchld \in BOOLEAN /\ backlog \in BOOLEAN

\* The facts of a step that touches no task and no loader.
LEMMA StartupTypes ==
    ASSUME LifeInv, KmodInv', NoTask,
           stage' \in {"mount", "modules", "forwarding", "lo", "lan", "wan", "firewall",
                       "fatal", "running", "returned"},
           autoload' \in BOOLEAN, up' \subseteq Facilities, asked_for' \subseteq Aliases
    PROVE  LifecycleTypeOK' /\ ReaperInv'
BY DEF LifeInv, KmodInv, LifecycleTypeOK, NoTask, tasks, reaping, ReaperInv, NoZombieUnnoticed

LEMMA InitInv == Init => LifeInv
<1> SUFFICES ASSUME Init PROVE LifeInv
  OBVIOUS
<1>1. DepLinesOK /\ dep_lines \in [Modules -> Seq(Modules) \cup {None}]
  <2>1. CASE dep_lines = [m \in Modules |-> None]
    BY <2>1 DEF DepLinesOK
  <2>2. CASE /\ dep_lines \in [Modules -> UNION {DepLines(m) : m \in Modules}]
             /\ \A m \in Modules : dep_lines[m] \in DepLines(m)
    <3>1. \A m \in Modules : dep_lines[m] \in Seq(Modules)
      BY <2>2, DepLineSeq
    <3>2. \A m \in Modules : dep_lines[m] # None
      BY <3>1, NamesAssumption
    <3> QED BY <2>2, <3>1, <3>2 DEF DepLinesOK
  <2> QED BY <2>1, <2>2 DEF Init
<1>2. KmodTypeOK
  BY <1>1, FailuresAssumption DEF Init, KmodBoot, KmodTypeOK
<1>3. KmodInv
  BY <1>1, <1>2 DEF Init, KmodBoot, KmodInv, CacheIsTrue, PlanOrdered, DependenciesFirst
<1>4. Booleans
  BY Zenon DEF Init, LifeBoot, Booleans
<1>5. LifecycleTypeOK
  BY <1>2, <1>4, LifecycleAssumption DEF Init, LifeBoot, LifecycleTypeOK, Booleans
<1> QED BY <1>3, <1>5 DEF Init, LifeBoot, LifeInv, Stopped, EndsHopeless, ReaperInv, NoZombieUnnoticed

\* A machine that stops for another reason than the exit of init.
LEMMA StopsInv ==
    ASSUME LifeInv, NEW state \in {"off", "restarting", "crashed"}, Stops(state),
           state = "crashed" => hopeless
    PROVE  LifeInv'
<1>1. KmodInv'
  BY FreshLoaders DEF LifeInv, Stops
<1>2. Booleans'
  BY Zenon DEF LifeInv, LifecycleTypeOK, Stops, LifeReboot, Booleans
<1>3. LifecycleTypeOK'
  BY <1>1, <1>2, LifecycleAssumption
     DEF LifeInv, KmodInv, LifecycleTypeOK, Stops, LifeReboot, Booleans
<1> QED BY <1>1, <1>3 DEF LifeInv, Stops, LifeReboot, Stopped, EndsHopeless, ReaperInv, NoZombieUnnoticed

LEMMA PowerOnInv == ASSUME LifeInv, PowerOn PROVE LifeInv'
<1>1. KmodInv'
  BY NotLoading DEF LifeInv, KmodInv, KmodTypeOK, PowerOn, kmodVars, processes
<1>2. Booleans'
  BY Zenon DEF LifeInv, LifecycleTypeOK, PowerOn, startup, tasks, reaping, Booleans
<1>3. LifecycleTypeOK'
  BY <1>1, <1>2
     DEF LifeInv, KmodInv, LifecycleTypeOK, PowerOn, startup, tasks, reaping, Booleans
<1> QED BY <1>1, <1>3 DEF LifeInv, PowerOn, startup, tasks, reaping, Stopped, EndsHopeless, ReaperInv, NoZombieUnnoticed

\* A step of a loader touches nothing else.
LEMMA LoadsInv ==
    ASSUME LifeInv, NEW p \in Processes, LoaderStep(p), UNCHANGED lifeVars
    PROVE  LifeInv'
<1>1. KmodInv'
  BY LoaderInv DEF LifeInv
<1> QED BY <1>1 DEF LifeInv, KmodInv, lifeVars, startup, tasks, reaping, LifecycleTypeOK,
                    Stopped, EndsHopeless, ReaperInv, NoZombieUnnoticed

\* A step of start-up that loads nothing: what remains to show of it is where
\* it goes and what it sets up.
LEMMA StartupInv ==
    ASSUME LifeInv, KmodInv', NoTask, machine = "up",
           stage' \in {"modules", "forwarding", "lo", "lan", "wan", "firewall", "fatal",
                       "running", "returned"},
           autoload' \in BOOLEAN, up' \subseteq Facilities, asked_for' \subseteq Aliases,
           stage' = "returned" => hopeless,
           stage' = "running" => "firewall" \in up'
    PROVE  LifeInv'
<1>1. LifecycleTypeOK' /\ ReaperInv'
  BY StartupTypes
<1>2. Stopped' /\ EndsHopeless'
  BY DEF LifeInv, NoTask, tasks, Stopped, EndsHopeless
<1> QED BY <1>1, <1>2 DEF LifeInv

LEMMA MountInv == ASSUME LifeInv, Mount PROVE LifeInv'
<1>1. /\ stage' \in {"modules", "fatal"}
      /\ up' \subseteq Facilities /\ asked_for' \subseteq Aliases
      /\ Fails \/ Succeeds
  BY DEF Mount, Goes, LifeInv, LifecycleTypeOK
<1>2. autoload' \in BOOLEAN
  BY Zenon DEF Mount, LifeInv, LifecycleTypeOK
<1>3. Main \in Processes /\ Required \in Seq(Names)
  BY NamesAssumption DEF Processes, Names
<1>4. asked' \in [Processes -> Seq(Names)]
  BY <1>3 DEF Mount, LifeInv, KmodInv, KmodTypeOK
<1>5. KmodInv'
  BY <1>1, <1>4, FailuresCounted
     DEF Mount, LifeInv, KmodInv, KmodTypeOK, DepLinesOK, CacheIsTrue, PlanOrdered,
         DependenciesFirst
<1> QED BY <1>1, <1>2, <1>5, StartupInv DEF Mount, At

LEMMA ModulesLoadedInv == ASSUME LifeInv, ModulesLoaded PROVE LifeInv'
<1>1. KmodInv'
  BY NotLoading DEF LifeInv, KmodInv, KmodTypeOK, ModulesLoaded, kmodVars, processes
<1> QED BY <1>1, StartupInv DEF ModulesLoaded, At, Goes, LifeInv, LifecycleTypeOK

\* The interfaces and the firewall.
LEMMA SetUpInv ==
    ASSUME LifeInv,
           EnableForwarding \/ SetUpLo \/ SetUpLan \/ SetUpWan \/ ConfigureFirewall
    PROVE  LifeInv'
<1>1. /\ machine = "up" /\ NoTask /\ NoLoading
      /\ UNCHANGED <<autoload, asked_for>>
      /\ Fails \/ Succeeds
      /\ stage' \in {"lo", "lan", "wan", "firewall", "running", "fatal"}
      /\ stage' = "running" => "firewall" \in up'
  BY DEF EnableForwarding, SetUpLo, SetUpLan, SetUpWan, ConfigureFirewall, At, Goes, Sets
<1>2. \E s \in SUBSET Facilities : up' = up \cup s
  BY DEF EnableForwarding, SetUpLo, SetUpLan, SetUpWan, ConfigureFirewall, Sets, Facilities
<1>3. up' \subseteq Facilities
  BY <1>2 DEF LifeInv, LifecycleTypeOK
<1>4. KmodInv'
  BY <1>1, NotLoading, FailuresCounted DEF LifeInv, NoLoading, processes
<1> QED BY <1>1, <1>3, <1>4, StartupInv DEF LifeInv, LifecycleTypeOK

LEMMA FatalInv == ASSUME LifeInv, Fatal PROVE LifeInv'
<1>1. CASE Stops("restarting")
  BY <1>1, StopsInv
<1>2. CASE /\ AutobootRefused /\ Goes("returned")
           /\ UNCHANGED <<autoload, up, asked_for, tasks, reaping>> /\ NoLoading
  <2>1. KmodInv'
    BY <1>2, NotLoading, FailuresCounted
       DEF LifeInv, NoLoading, processes, AutobootRefused, Refused
  <2>2. hopeless' = TRUE /\ machine' = machine /\ machine = "up" /\ stage' = "returned"
    BY <1>2 DEF AutobootRefused, Refused, Goes, Fatal, At
  <2>3. Booleans'
    BY <1>2, <2>2, Zenon DEF LifeInv, LifecycleTypeOK, tasks, reaping, Booleans
  <2>4. LifecycleTypeOK'
    BY <1>2, <2>1, <2>2, <2>3
       DEF LifeInv, KmodInv, LifecycleTypeOK, tasks, reaping, Booleans
  <2> QED BY <1>2, <2>1, <2>2, <2>4
             DEF LifeInv, tasks, reaping, Stopped, EndsHopeless, ReaperInv, NoZombieUnnoticed
<1> QED BY <1>1, <1>2 DEF Fatal

LEMMA KernelAsksInv == ASSUME LifeInv, NEW p \in Helpers, KernelAsks(p) PROVE LifeInv'
<1> PICK alias \in Aliases \ asked_for :
          StartHelper(p, alias) /\ asked_for' = asked_for \cup {alias}
  BY DEF KernelAsks
<1>1. KmodInv'
  BY HelperInv DEF LifeInv
<1>2. LifecycleTypeOK' /\ ReaperInv'
  BY <1>1, StartupTypes DEF KernelAsks, LifeInv, LifecycleTypeOK
<1> QED BY <1>1, <1>2 DEF LifeInv, KernelAsks, NoTask, tasks, Stopped, EndsHopeless

\* The facts of a step of a task that leaves the machine as it is, and nothing
\* of start-up or of the loaders but the number of failures.
LEMMA TaskInv ==
    ASSUME LifeInv, Quiet, UNCHANGED machine, machine = "up", stage = "running",
           failures' \in 0 .. MaxFailures, Booleans',
           monitor' \in {"new", "waiting", "grace", "fallback", "done", "stuck"},
           listening' = None \/ listening' \subseteq Buttons,
           clock' \in {"running", "stuck"},
           reaper' \in {"new", "asleep", "reaping", "stopped"},
           zombies' \in 0 .. MaxOrphans,
           monitor' = "done" => hopeless',
           ReaperInv'
    PROVE  LifeInv'
<1>1. KmodInv'
  BY NotLoading DEF LifeInv, Quiet, processes
<1>2. LifecycleTypeOK'
  BY <1>1 DEF LifeInv, KmodInv, LifecycleTypeOK, Quiet, startup, Booleans
<1>3. Stopped' /\ EndsHopeless'
  BY DEF LifeInv, Quiet, startup, Stopped, EndsHopeless
<1> QED BY <1>1, <1>2, <1>3 DEF LifeInv

\* A step of a task other than the reaper, the machine staying up.
LEMMA OtherTaskInv ==
    ASSUME LifeInv, Quiet, UNCHANGED <<machine, reaping>>, TaskRuns,
           failures' \in 0 .. MaxFailures,
           shutdown_flag' \in BOOLEAN, hopeless' \in BOOLEAN,
           monitor' \in {"new", "waiting", "grace", "fallback", "done", "stuck"},
           listening' = None \/ listening' \subseteq Buttons,
           clock' \in {"running", "stuck"},
           monitor' = "done" => hopeless'
    PROVE  LifeInv'
<1>1. ReaperInv' /\ zombies' \in 0 .. MaxOrphans
         /\ reaper' \in {"new", "asleep", "reaping", "stopped"}
  BY DEF LifeInv, LifecycleTypeOK, reaping, ReaperInv, NoZombieUnnoticed
<1>2. Booleans'
  BY Zenon DEF LifeInv, LifecycleTypeOK, reaping, Quiet, startup, Booleans
<1>3. UNCHANGED machine /\ machine = "up" /\ stage = "running"
  BY DEF TaskRuns, At
<1> QED BY <1>1, <1>2, <1>3, TaskInv

LEMMA ClockPanicsInv == ASSUME LifeInv, ClockPanics PROVE LifeInv'
<1>1. CASE Stops("restarting")
  BY <1>1, StopsInv
<1>2. CASE /\ AutobootRefused /\ clock' = "stuck"
           /\ UNCHANGED <<shutdown_flag, monitor, listening, reaping>> /\ Quiet
  <2>1. failures' \in 0 .. MaxFailures
    BY <1>2, FailuresCounted DEF LifeInv, AutobootRefused, Refused
  <2>2. hopeless' \in BOOLEAN /\ hopeless'
    BY <1>2 DEF AutobootRefused
  <2>3. UNCHANGED <<machine, reaping>> /\ TaskRuns
    BY <1>2 DEF AutobootRefused, Refused, ClockPanics
  <2>4. shutdown_flag' \in BOOLEAN
    BY <1>2, Zenon DEF LifeInv, LifecycleTypeOK
  <2> QED BY <1>2, <2>1, <2>2, <2>3, <2>4, OtherTaskInv DEF LifeInv, LifecycleTypeOK
<1> QED BY <1>1, <1>2 DEF ClockPanics

LEMMA MonitorInv ==
    ASSUME LifeInv, MonitorStarts \/ MonitorPowersOff \/ MonitorFallsBack \/ Signal
    PROVE  LifeInv'
<1>1. CASE Stops("off") \/ Stops("restarting")
  BY <1>1, StopsInv
<1>2. CASE ~Stops("off") /\ ~Stops("restarting")
  <2>1. Quiet /\ UNCHANGED <<machine, reaping, listening, clock>> /\ TaskRuns
    BY <1>2 DEF MonitorStarts, MonitorPowersOff, MonitorFallsBack, Signal, OnlyMonitor, Refused,
                AutobootRefused
  <2>2. failures' \in 0 .. MaxFailures
    BY <1>2, FailuresCounted, FailuresAssumption
       DEF MonitorStarts, MonitorPowersOff, MonitorFallsBack, Signal, Refused, AutobootRefused,
           LifeInv, KmodInv, KmodTypeOK, Succeeds
  <2>3. shutdown_flag' \in BOOLEAN /\ hopeless' \in BOOLEAN
    BY <1>2, Zenon
       DEF MonitorStarts, MonitorPowersOff, MonitorFallsBack, Signal, OnlyMonitor,
           AutobootRefused, LifeInv, LifecycleTypeOK
  <2>4. /\ monitor' \in {"waiting", "grace", "fallback", "done", "stuck"}
        /\ monitor' = "done" => hopeless'
    BY <1>2
       DEF MonitorStarts, MonitorPowersOff, MonitorFallsBack, Signal, AutobootRefused
  <2> QED BY <2>1, <2>2, <2>3, <2>4, OtherTaskInv DEF LifeInv, LifecycleTypeOK
<1> QED BY <1>1, <1>2

LEMMA ButtonInv ==
    ASSUME LifeInv, OpenButtons \/ \E b \in Buttons : PowerButton(b) \/ ButtonGone(b)
    PROVE  LifeInv'
<1>1. CASE Stops("off")
  BY <1>1, StopsInv
<1>2. CASE ~Stops("off")
  <2>1. /\ Quiet /\ UNCHANGED <<machine, reaping, monitor, clock, hopeless>> /\ TaskRuns
        /\ Fails \/ Succeeds
    BY <1>2 DEF OpenButtons, PowerButton, ButtonGone, Refused
  <2>2. failures' \in 0 .. MaxFailures
    BY <2>1, FailuresCounted DEF LifeInv
  <2>3. shutdown_flag' \in BOOLEAN /\ hopeless' \in BOOLEAN
    BY <1>2, <2>1, Zenon DEF OpenButtons, PowerButton, ButtonGone, LifeInv, LifecycleTypeOK
  <2>4. listening' \subseteq Buttons
    BY <1>2 DEF OpenButtons, PowerButton, ButtonGone, LifeInv, LifecycleTypeOK
  <2>5. monitor = "done" => hopeless
    BY DEF LifeInv, EndsHopeless
  <2> QED BY <2>1, <2>2, <2>3, <2>4, <2>5, OtherTaskInv DEF LifeInv, LifecycleTypeOK
<1> QED BY <1>1, <1>2

\* main, once the monitor has ended.
LEMMA EndInv == ASSUME LifeInv, MainReturns \/ InitExits PROVE LifeInv'
<1>1. CASE MainReturns
  <2>1. KmodInv'
    BY <1>1, NotLoading DEF LifeInv, KmodInv, KmodTypeOK, MainReturns, kmodVars, processes
  <2>2. hopeless /\ stage' = "returned"
    BY <1>1 DEF LifeInv, EndsHopeless, MainReturns, Goes
  <2> QED BY <1>1, <2>1, <2>2, StartupInv DEF MainReturns, At, LifeInv, LifecycleTypeOK
<1>2. CASE InitExits
  BY <1>2, StopsInv DEF InitExits, At, LifeInv, EndsHopeless
<1> QED BY <1>1, <1>2

\* Each step of the reaper, and what it makes of the orphans it knows of.
LEMMA ReaperKeeps ==
    ASSUME LifeInv,
           ReaperStarts \/ ReaperWakes \/ ReapOne \/ ReapDone \/ OrphanDies
    PROVE  LifeInv'
<1>1. /\ Quiet /\ UNCHANGED <<machine, tasks, hopeless>> /\ machine = "up"
      /\ stage = "running"
  BY DEF ReaperStarts, ReaperWakes, ReapOne, ReapDone, OrphanDies, ReaperOnly, TaskRuns, At
<1>2. failures' \in 0 .. MaxFailures
  BY FailuresCounted DEF ReaperStarts, ReaperWakes, ReapOne, ReapDone, OrphanDies, Succeeds,
                         LifeInv
<1>3. Booleans'
  BY <1>1, Zenon
     DEF ReaperStarts, ReaperWakes, ReapOne, ReapDone, OrphanDies, tasks, Quiet, startup,
         LifeInv, LifecycleTypeOK, Booleans
<1>4. zombies' \in 0 .. MaxOrphans /\ reaper' \in {"new", "asleep", "reaping", "stopped"}
  <2>1. reaper' = reaper \/ reaper' \in {"asleep", "reaping", "stopped"}
    BY Zenon DEF ReaperStarts, ReaperWakes, ReapOne, ReapDone, OrphanDies
  <2>2. \/ UNCHANGED zombies
        \/ zombies > 0 /\ zombies' = zombies - 1
        \/ zombies < MaxOrphans /\ zombies' = zombies + 1
    BY Zenon DEF ReaperStarts, ReaperWakes, ReapOne, ReapDone, OrphanDies
  <2> QED BY <2>1, <2>2, LifecycleAssumption DEF LifeInv, LifecycleTypeOK
<1>5. ReaperInv'
  <2>1. CASE ReaperStarts
    BY <2>1 DEF ReaperStarts, LifeInv, ReaperInv, NoZombieUnnoticed
  <2>2. CASE ReaperWakes
    BY <2>2 DEF ReaperWakes, LifeInv, ReaperInv, NoZombieUnnoticed
  <2>3. CASE ReapOne
    BY <2>3 DEF ReapOne, LifeInv, LifecycleTypeOK, ReaperInv, NoZombieUnnoticed
  <2>4. CASE ReapDone
    BY <2>4 DEF ReapDone, LifeInv, ReaperInv, NoZombieUnnoticed
  <2>5. CASE OrphanDies
    BY <2>5 DEF OrphanDies, LifeInv, ReaperInv, NoZombieUnnoticed
  <2> QED BY <2>1, <2>2, <2>3, <2>4, <2>5
<1>6. monitor = "done" => hopeless
  BY DEF LifeInv, EndsHopeless
<1> QED BY <1>1, <1>2, <1>3, <1>4, <1>5, <1>6, TaskInv
           DEF LifeInv, LifecycleTypeOK, tasks

LEMMA LifeStep == LifeInv /\ [Next]_vars => LifeInv'
<1> SUFFICES ASSUME LifeInv, [Next]_vars PROVE LifeInv'
  OBVIOUS
<1>1. CASE PowerOn
  BY <1>1, PowerOnInv
<1>2. CASE MainStep
  <2>1. CASE LoadRequired
    BY <2>1, LoadsInv DEF LoadRequired, Processes
  <2> QED BY <1>2, <2>1, MountInv, ModulesLoadedInv, SetUpInv, FatalInv, EndInv
             DEF MainStep, StartupStep
<1>3. CASE \E p \in Helpers : KernelAsks(p) \/ HelperLoads(p)
  BY <1>3, KernelAsksInv, LoadsInv DEF HelperLoads, Processes
<1>4. CASE MonitorStep \/ Signal
  BY <1>4, MonitorInv DEF MonitorStep
<1>5. CASE OpenButtons \/ \E b \in Buttons : PowerButton(b) \/ ButtonGone(b)
  BY <1>5, ButtonInv
<1>6. CASE ReaperStep \/ OrphanDies
  BY <1>6, ReaperKeeps DEF ReaperStep
<1>7. CASE ClockPanics
  BY <1>7, ClockPanicsInv
<1>8. CASE UNCHANGED vars
  <2>1. KmodInv'
    BY <1>8, NotLoading DEF LifeInv, KmodInv, KmodTypeOK, vars, kmodVars, processes
  <2> QED BY <1>8, <2>1 DEF vars, lifeVars, startup, tasks, reaping, LifeInv, KmodInv,
                            LifecycleTypeOK, Stopped, EndsHopeless, ReaperInv, NoZombieUnnoticed
<1> QED BY <1>1, <1>2, <1>3, <1>4, <1>5, <1>6, <1>7, <1>8 DEF Next

LEMMA LifeInvariant == Spec => []LifeInv
<1> QED BY InitInv, LifeStep, PTL DEF Spec

-----------------------------------------------------------------------------
(***************************************************************************)
(* What main loads.  Every required module has been tried, or main has yet *)
(* to come to it: whatever fails, the files of its plan and the names it   *)
(* is asked for are never lost on the way.                                 *)
(***************************************************************************)
Tried == kernel \cup failed \cup refused

Ahead(m) ==
    \/ m \in Tried
    \/ \E i \in 1 .. Len(asked[Main]) : asked[Main][i] = m
    \/ \E i \in 1 .. Len(plan[Main]) : plan[Main][i] = m

NoneLost == \A i \in 1 .. Len(Required) : Ahead(Required[i])
AllTried == \A i \in 1 .. Len(Required) : Required[i] \in Tried
SettingUp == {"forwarding", "lo", "lan", "wan", "firewall", "running"}

\* What a module needs is tried before it.
TriedInv ==
    HasModulesDep =>
        /\ \A m \in Tried : Needs[m] \subseteq Tried
        /\ stage = "modules" => NoneLost
        /\ stage \in SettingUp => AllTried

\* A loader adds to what has been tried the file that is next, and no other.
LEMMA LoaderTries ==
    ASSUME KmodInv, HasModulesDep, NEW p \in Processes, LoaderStep(p)
    PROVE  /\ Tried \subseteq Tried'
           /\ LoadNext(p) => Head(plan[p]) \in Tried'
           /\ (\A m \in Tried : Needs[m] \subseteq Tried)
              => (\A m \in Tried' : Needs[m] \subseteq Tried')
<1>1. CASE LoadNext(p)
  <2> PICK m : m = Head(plan[p])
    OBVIOUS
  <2>1. plan[p] \in Seq(Modules) /\ plan[p] # <<>> /\ m = plan[p][1] /\ 1 \in 1 .. Len(plan[p])
    BY <1>1 DEF LoadNext, KmodInv, KmodTypeOK
  <2>2. Needs[m] \subseteq Tried
    <3>1. 1 .. 1 - 1 = {}
      OBVIOUS
    <3> QED BY <2>1, <3>1 DEF KmodInv, PlanOrdered, Tried
  <2>3. Tried' = Tried \cup {m}
    <3>1. CASE m \in loaded[p] /\ UNCHANGED <<kernel, failed, refused>>
      BY <3>1 DEF KmodInv, CacheIsTrue, Tried
    <3>2. CASE LoadOK(m)
      BY <3>2 DEF LoadOK, Tried
    <3>3. CASE LoadFails(m)
      BY <3>3 DEF LoadFails, Tried
    <3> QED BY <1>1, <3>1, <3>2, <3>3 DEF LoadNext
  <2> QED BY <1>1, <2>2, <2>3
<1>2. ASSUME NEW name \in Names,
             SkipLoaded(p, name) \/ LoadSingle(p, name) \/ FollowLine(p, name)
      PROVE  UNCHANGED <<kernel, failed, refused>> /\ ~LoadNext(p)
  <2>1. UNCHANGED <<kernel, failed, refused>>
    BY <1>2 DEF SkipLoaded, LoadSingle, FollowLine, KmodInv, DepLinesOK, HasModulesDep
  <2>2. plan[p] = <<>>
    BY <1>2 DEF SkipLoaded, LoadSingle, FollowLine, Asks
  <2> QED BY <2>1, <2>2 DEF LoadNext
<1> QED BY <1>1, <1>2 DEF LoaderStep, Tried

\* main handles a name or a file, and loses none.
LEMMA MainLosesNone ==
    ASSUME KmodInv, HasModulesDep, LoaderStep(Main), NEW m \in Modules, Ahead(m)
    PROVE  Ahead(m)'
<1> Main \in Processes
  BY DEF Processes
<1>1. CASE m \in Tried
  BY <1>1, LoaderTries DEF Ahead
<1>2. CASE LoadNext(Main)
  <2>1. /\ plan[Main] \in Seq(Modules) /\ plan[Main] # <<>>
        /\ plan'[Main] = Tail(plan[Main]) /\ UNCHANGED asked
    BY <1>2 DEF LoadNext, KmodInv, KmodTypeOK
  <2>2. Head(plan[Main]) \in Tried'
    BY <1>2, LoaderTries
  <2>3. CASE \E i \in 1 .. Len(asked[Main]) : asked[Main][i] = m
    BY <2>1, <2>3 DEF Ahead
  <2>4. ASSUME NEW i \in 1 .. Len(plan[Main]), plan[Main][i] = m
        PROVE  Ahead(m)'
    <3>1. CASE i = 1
      BY <2>1, <2>2, <2>4, <3>1 DEF Ahead
    <3>2. CASE i # 1
      <4>1. i - 1 \in 1 .. Len(plan'[Main])
        BY <2>1, <2>4, <3>2
      <4>2. plan'[Main][i - 1] = plan[Main][i]
        BY <2>1, <2>4, <3>2, <4>1
      <4> QED BY <2>4, <4>1, <4>2 DEF Ahead
    <3> QED BY <3>1, <3>2
  <2> QED BY <1>1, <2>3, <2>4 DEF Ahead
<1>3. ASSUME NEW name \in Names,
             SkipLoaded(Main, name) \/ LoadSingle(Main, name) \/ FollowLine(Main, name)
      PROVE  Ahead(m)'
  <2>1. /\ asked[Main] \in Seq(Names) /\ asked[Main] # <<>>
        /\ name = asked[Main][1] /\ asked'[Main] = Tail(asked[Main])
        /\ plan[Main] = <<>>
    BY <1>3 DEF SkipLoaded, LoadSingle, FollowLine, Asks, Handled, KmodInv, KmodTypeOK
  <2>2. CASE m = name
    <3>1. CASE SkipLoaded(Main, name)
      BY <1>1, <2>2, <3>1 DEF SkipLoaded, KmodInv, CacheIsTrue, Tried
    <3>2. CASE LoadSingle(Main, name)
      BY <2>2, <3>2 DEF LoadSingle, KmodInv, DepLinesOK, HasModulesDep
    <3>3. CASE FollowLine(Main, name)
      <4>1. dep_lines[name] \in DepLines(name)
        BY <2>2, <3>3 DEF FollowLine, KmodInv, DepLinesOK
      <4>2. /\ plan'[Main] = Append(Reverse(dep_lines[name]), name)
            /\ Reverse(dep_lines[name]) \in Seq(Modules)
        BY <2>2, <3>3, <4>1, ReversedLine DEF FollowLine, KmodInv, KmodTypeOK
      <4>3. /\ Len(plan'[Main]) \in 1 .. Len(plan'[Main])
            /\ plan'[Main][Len(plan'[Main])] = name
        BY <2>2, <4>2
      <4> QED BY <2>2, <4>3 DEF Ahead
    <3> QED BY <1>3, <3>1, <3>2, <3>3
  <2>3. CASE m # name /\ m \notin Tried
    <3>1. PICK i \in 1 .. Len(asked[Main]) : asked[Main][i] = m
      BY <2>1, <2>3 DEF Ahead
    <3>2. i - 1 \in 1 .. Len(asked'[Main])
      <4>1. i # 1 /\ Len(asked[Main]) \in Nat
        BY <2>1, <2>3, <3>1
      <4>2. Len(asked'[Main]) = Len(asked[Main]) - 1
        BY <2>1
      <4> QED BY <4>1, <4>2
    <3>3. asked'[Main][i - 1] = asked[Main][i]
      BY <2>1, <3>1, <3>2
    <3> QED BY <3>1, <3>2, <3>3 DEF Ahead
  <2> QED BY <1>1, <2>2, <2>3
<1> QED BY <1>2, <1>3 DEF LoaderStep

\* A step of another than the loaders: main does not go back to its list.
LEMMA TriedRest ==
    ASSUME TriedInv, UNCHANGED <<dep_lines, kernel, failed, refused>>,
           asked'[Main] = asked[Main], plan'[Main] = plan[Main],
           stage' \in {stage, "fatal", "returned"} \/ stage \in SettingUp
    PROVE  TriedInv'
<1>1. Tried' = Tried /\ HasModulesDep' = HasModulesDep
  BY DEF Tried, HasModulesDep
<1>2. (NoneLost => NoneLost') /\ (AllTried => AllTried') /\ (AllTried => NoneLost)
  BY <1>1 DEF NoneLost, AllTried, Ahead
<1> QED BY <1>1, <1>2 DEF TriedInv, SettingUp

LEMMA TriedInit == Init => TriedInv
BY DEF Init, KmodBoot, LifeBoot, TriedInv, Tried, SettingUp

LEMMA StopsTried == ASSUME NEW state, Stops(state) PROVE TriedInv'
BY DEF Stops, KmodReboot, LifeReboot, TriedInv, Tried, SettingUp

LEMMA LoadTried == ASSUME LifeInv, TriedInv, LoadRequired PROVE TriedInv'
<1>1. /\ LoaderStep(Main) /\ Main \in Processes /\ KmodInv
      /\ UNCHANGED <<dep_lines, stage>> /\ stage = "modules"
  BY DEF LoadRequired, At, LoaderStep, SkipLoaded, LoadSingle, FollowLine, LoadNext, Handled,
         lifeVars, startup, Processes, LifeInv
<1> SUFFICES ASSUME HasModulesDep
             PROVE  NoneLost' /\ \A m \in Tried' : Needs[m] \subseteq Tried'
  BY <1>1 DEF TriedInv, HasModulesDep, SettingUp
<1>2. ASSUME NEW i \in 1 .. Len(Required) PROVE Ahead(Required[i])'
  <2>1. Required[i] \in Modules /\ Ahead(Required[i])
    BY <1>1, NamesAssumption DEF TriedInv, NoneLost
  <2> QED BY <1>1, <2>1, MainLosesNone
<1>3. \A m \in Tried' : Needs[m] \subseteq Tried'
  BY <1>1, LoaderTries DEF TriedInv
<1> QED BY <1>2, <1>3 DEF NoneLost

LEMMA HelperTried ==
    ASSUME LifeInv, TriedInv, NEW p \in Helpers, KernelAsks(p) \/ HelperLoads(p)
    PROVE  TriedInv'
<1>1. p \in Processes /\ p # Main
  BY NamesAssumption DEF Processes
<1>2. CASE KernelAsks(p)
  <2>1. /\ UNCHANGED <<dep_lines, kernel, failed, refused, stage, plan>>
        /\ asked'[Main] = asked[Main]
    BY <1>1, <1>2 DEF KernelAsks, StartHelper, LifeInv, KmodInv, KmodTypeOK, Processes
  <2> QED BY <2>1, TriedRest
<1>3. CASE HelperLoads(p)
  <2>1. /\ KmodInv /\ LoaderStep(p) /\ UNCHANGED <<dep_lines, stage>>
        /\ asked'[Main] = asked[Main] /\ plan'[Main] = plan[Main]
    BY <1>1, <1>3 DEF HelperLoads, LoaderStep, SkipLoaded, LoadSingle, FollowLine, LoadNext,
                      Handled, LifeInv, KmodInv, KmodTypeOK, Processes, lifeVars, startup
  <2> SUFFICES ASSUME HasModulesDep
               PROVE  /\ \A m \in Tried' : Needs[m] \subseteq Tried'
                      /\ stage = "modules" => NoneLost'
                      /\ stage \in SettingUp => AllTried'
    BY <2>1 DEF TriedInv, HasModulesDep
  <2>2. Tried \subseteq Tried' /\ \A m \in Tried' : Needs[m] \subseteq Tried'
    BY <1>1, <2>1, LoaderTries DEF TriedInv
  <2>3. (NoneLost => NoneLost') /\ (AllTried => AllTried')
    BY <2>1, <2>2 DEF NoneLost, AllTried, Ahead
  <2> QED BY <2>2, <2>3 DEF TriedInv
<1> QED BY <1>2, <1>3

\* main begins with its whole list, and goes on when it is through with it.
LEMMA StartupTried ==
    ASSUME LifeInv, TriedInv, StartupStep, ~LoadRequired
    PROVE  TriedInv'
<1>1. CASE Mount
  <2>1. /\ UNCHANGED <<dep_lines, kernel, failed, refused>>
        /\ \/ stage' = "modules" /\ asked'[Main] = Required
           \/ stage' = "fatal"
    BY <1>1 DEF Mount, Goes, LifeInv, KmodInv, KmodTypeOK, Processes
  <2>2. Tried' = Tried /\ HasModulesDep' = HasModulesDep
    BY <2>1 DEF Tried, HasModulesDep
  <2>3. stage' = "modules" => NoneLost'
    BY <2>1 DEF NoneLost, Ahead
  <2> QED BY <2>1, <2>2, <2>3 DEF TriedInv, SettingUp
<1>2. CASE ModulesLoaded
  <2>1. /\ UNCHANGED <<dep_lines, kernel, failed, refused>>
        /\ stage = "modules" /\ stage' = "forwarding"
        /\ asked[Main] = <<>> /\ plan[Main] = <<>>
    BY <1>2 DEF ModulesLoaded, At, Goes, Idle, kmodVars
  <2>2. Tried' = Tried /\ HasModulesDep' = HasModulesDep
    BY <2>1 DEF Tried, HasModulesDep
  <2>3. NoneLost => AllTried'
    BY <2>1, <2>2 DEF NoneLost, AllTried, Ahead
  <2> QED BY <2>1, <2>2, <2>3 DEF TriedInv
<1>3. CASE Fatal
  BY <1>3, StopsTried, TriedRest DEF Fatal, Goes, NoLoading, processes
<1>4. CASE EnableForwarding \/ SetUpLo \/ SetUpLan \/ SetUpWan \/ ConfigureFirewall
  <2>1. stage \in SettingUp /\ NoLoading
    BY <1>4 DEF EnableForwarding, SetUpLo, SetUpLan, SetUpWan, ConfigureFirewall, At, SettingUp
  <2> QED BY <2>1, TriedRest DEF NoLoading, processes
<1> QED BY <1>1, <1>2, <1>3, <1>4 DEF StartupStep

\* The tasks load nothing.
LEMMA TaskTried ==
    ASSUME TriedInv,
           \/ PowerOn \/ MainReturns \/ InitExits \/ UNCHANGED vars
           \/ MonitorStep \/ Signal \/ OpenButtons \/ ReaperStep \/ OrphanDies \/ ClockPanics
           \/ \E b \in Buttons : PowerButton(b) \/ ButtonGone(b)
    PROVE  TriedInv'
<1>1. CASE \E state : Stops(state)
  BY <1>1, StopsTried
<1>2. CASE PowerOn \/ MainReturns \/ UNCHANGED vars
  BY <1>2, TriedRest DEF PowerOn, MainReturns, Goes, vars, kmodVars, processes, lifeVars, startup
<1>3. CASE /\ ~(\E state : Stops(state))
           /\ \/ MonitorStep \/ Signal \/ OpenButtons \/ ReaperStep \/ OrphanDies
              \/ ClockPanics \/ \E b \in Buttons : PowerButton(b) \/ ButtonGone(b)
  <2>1. Quiet
    BY <1>3 DEF MonitorStep, MonitorStarts, MonitorPowersOff, MonitorFallsBack, OnlyMonitor,
                Signal, OpenButtons, PowerButton, ButtonGone, ReaperStep, ReaperStarts,
                ReaperWakes, ReapOne, ReapDone, OrphanDies, ReaperOnly, ClockPanics
  <2> QED BY <2>1, TriedRest DEF Quiet, startup, processes
<1> QED BY <1>1, <1>2, <1>3 DEF InitExits

LEMMA TriedStep == LifeInv /\ TriedInv /\ [Next]_vars => TriedInv'
BY LoadTried, HelperTried, StartupTried, TaskTried DEF Next, MainStep

-----------------------------------------------------------------------------
(***************************************************************************)
(* A boot in which nothing fails                                           *)
(***************************************************************************)

\* The kernel has what its modules need.
KernelClosed == \A m \in kernel : Needs[m] \subseteq kernel

SetUpBy(s) ==
    CASE s = "lo" -> {"forwarding"}
      [] s = "lan" -> {"forwarding", "lo"}
      [] s = "wan" -> {"forwarding", "lo", "lan", "address"}
      [] s = "firewall" -> {"forwarding", "lo", "lan", "address", "wan"}
      [] s = "running" -> Facilities
      [] OTHER -> {}

CleanSoFar ==
    /\ failed = {} /\ stage # "fatal"
    /\ SetUpBy(stage) \subseteq up

CleanInv == KernelClosed /\ (failures = 0 /\ HasModulesDep => CleanSoFar)

\* Once the required modules have been tried without a failure, the kernel misses
\* none: a refusal goes back to a failure.
LEMMA NoneMissing ==
    ASSUME LifeInv, KernelClosed, HasModulesDep, AllTried, failed = {}
    PROVE  NetDriver \in kernel /\ Missing = {}
<1>1. refused = {}
  BY DEF LifeInv, KmodInv, KmodTypeOK, DepLinesOK, DependenciesFirst, HasModulesDep
<1>2. ASSUME NEW m \in FirewallModules \cup {NetDriver} PROVE m \in kernel
  <2>1. PICK i \in 1 .. Len(Required) : m \in Needs[Required[i]] \cup {Required[i]}
    BY RequiredAssumption
  <2> QED BY <1>1, <2>1 DEF AllTried, Tried, KernelClosed
<1> QED BY <1>2 DEF Missing

\* What a loader may do to the kernel.
LEMMA KernelGrows ==
    ASSUME KernelClosed, NEW p \in Processes, LoaderStep(p)
    PROVE  KernelClosed' /\ kernel \subseteq kernel'
<1>1. \/ UNCHANGED kernel
      \/ \E m \in Names : LoadOK(m)
      \/ LoadOK(Head(plan[p]))
  BY Zenon DEF LoaderStep, SkipLoaded, LoadSingle, FollowLine, LoadNext, LoadFails
<1>2. ASSUME NEW m, LoadOK(m) PROVE KernelClosed' /\ kernel \subseteq kernel'
  BY <1>2 DEF LoadOK, Accepts, KernelClosed
<1> QED BY <1>1, <1>2 DEF KernelClosed

\* A loader by whose step nothing has failed yet.
LEMMA LoaderFails ==
    ASSUME KmodInv, KmodInv', HasModulesDep, NEW p \in Processes, LoaderStep(p), failures' = 0
    PROVE  failures = 0 /\ (failed = {} => failed' = {})
<1>1. \/ UNCHANGED <<failures, failed>>
      \/ \E m \in Names : LoadOK(m) \/ LoadFails(m)
      \/ LoadOK(Head(plan[p])) \/ LoadFails(Head(plan[p]))
  BY Zenon DEF LoaderStep, SkipLoaded, LoadSingle, FollowLine, LoadNext
<1>2. ASSUME NEW m, LoadOK(m) \/ LoadFails(m) PROVE UNCHANGED <<failures, failed>>
  BY <1>2 DEF LoadOK, LoadFails, Succeeds, Fails, KmodInv, KmodTypeOK
<1> QED BY <1>1, <1>2

\* A step that leaves alone what the clean boot is about, or adds a failure.
LEMMA CleanRest ==
    ASSUME CleanInv, UNCHANGED <<dep_lines, kernel, failed, stage, up>>,
           failures' = 0 => failures = 0
    PROVE  CleanInv'
BY DEF CleanInv, KernelClosed, HasModulesDep, CleanSoFar, SetUpBy

\* Failures are counted up.
LEMMA NoFailureYet ==
    ASSUME KmodInv, Fails \/ Succeeds
    PROVE  failures' = 0 => failures = 0 /\ Succeeds
BY DEF KmodInv, KmodTypeOK, Fails, Succeeds

\* A step of start-up that loads nothing.
LEMMA CleanStartup ==
    ASSUME CleanInv, UNCHANGED <<dep_lines, kernel, failed>>,
           failures' = 0 => failures = 0,
           failures' = 0 /\ HasModulesDep /\ CleanSoFar =>
              stage' # "fatal" /\ SetUpBy(stage') \subseteq up'
    PROVE  CleanInv'
<1>1. KernelClosed'
  BY DEF CleanInv, KernelClosed
<1>2. ASSUME failures' = 0, HasModulesDep'
      PROVE  CleanSoFar'
  <2>1. failures = 0 /\ HasModulesDep /\ CleanSoFar
    BY <1>2 DEF CleanInv, HasModulesDep
  <2>2. stage' # "fatal" /\ (SetUpBy(stage) \subseteq up)'
    BY <1>2, <2>1 DEF SetUpBy
  <2> QED BY <2>1, <2>2 DEF CleanSoFar
<1> QED BY <1>1, <1>2 DEF CleanInv

LEMMA StopsClean == ASSUME NEW state, Stops(state) PROVE CleanInv'
BY DEF Stops, KmodReboot, LifeReboot, CleanInv, KernelClosed, CleanSoFar, SetUpBy

LEMMA MountClean == ASSUME LifeInv, CleanInv, Mount PROVE CleanInv'
<1>1. /\ UNCHANGED <<dep_lines, kernel, failed>>
      /\ failures' = 0 => failures = 0 /\ stage' = "modules"
  BY NoFailureYet DEF Mount, Goes, Fails, LifeInv, KmodInv, KmodTypeOK
<1>2. SetUpBy("modules") = {}
  BY DEF SetUpBy
<1> QED BY <1>1, <1>2, CleanStartup

\* A step of any loader, main or helper.
LEMMA LoadClean ==
    ASSUME LifeInv, LifeInv', CleanInv, NEW p \in Processes, LoaderStep(p), UNCHANGED lifeVars
    PROVE  CleanInv'
<1>1. /\ KernelClosed' /\ UNCHANGED <<dep_lines, stage, up>>
      /\ KmodInv /\ KmodInv'
  BY KernelGrows DEF LoaderStep, SkipLoaded, LoadSingle, FollowLine, LoadNext,
                     Handled, lifeVars, startup, CleanInv, LifeInv
<1>2. ASSUME failures' = 0, HasModulesDep'
      PROVE  CleanSoFar'
  <2>1. HasModulesDep
    BY <1>1, <1>2 DEF HasModulesDep
  <2>2. failures = 0 /\ (failed = {} => failed' = {})
    BY LoaderFails, <1>1, <1>2, <2>1
  <2>3. CleanSoFar
    BY <2>1, <2>2 DEF CleanInv
  <2> QED BY <1>1, <2>2, <2>3 DEF CleanSoFar, SetUpBy
<1> QED BY <1>1, <1>2 DEF CleanInv

\* The order of start-up: what each step adds is what the next one counts on.
LEMMA SetUpClean ==
    ASSUME LifeInv, TriedInv, CleanInv,
           \/ ModulesLoaded \/ EnableForwarding \/ SetUpLo \/ SetUpLan \/ SetUpWan
           \/ ConfigureFirewall
    PROVE  CleanInv'
<1>1. /\ UNCHANGED <<dep_lines, kernel, failed>>
      /\ failures' = 0 => failures = 0 /\ Succeeds
  BY NoFailureYet
     DEF ModulesLoaded, EnableForwarding, SetUpLo, SetUpLan, SetUpWan, ConfigureFirewall,
         NoLoading, kmodVars, processes, LifeInv, Succeeds
<1>2. ASSUME failures' = 0, HasModulesDep, CleanSoFar
      PROVE  stage' # "fatal" /\ SetUpBy(stage') \subseteq up'
  <2>1. ~Fails
    BY <1>2 DEF Fails, LifeInv, KmodInv, KmodTypeOK
  <2>2. CASE ModulesLoaded
    BY <2>2 DEF ModulesLoaded, At, Goes, SetUpBy
  <2>3. CASE ~ModulesLoaded
    <3>1. stage \in {"forwarding", "lo", "lan", "wan", "firewall"}
      BY <2>3 DEF EnableForwarding, SetUpLo, SetUpLan, SetUpWan, ConfigureFirewall, At
    <3>2. NetDriver \in kernel /\ Missing = {}
      BY <1>2, <3>1, NoneMissing DEF CleanSoFar, CleanInv, TriedInv, SettingUp
    <3>3. SetUpBy(stage) \subseteq up
      BY <1>2 DEF CleanSoFar
    <3>4. \/ stage = "forwarding" /\ stage' = "lo" /\ up' = up \cup {"forwarding"}
          \/ stage = "lo" /\ stage' = "lan" /\ up' = up \cup {"lo"}
          \/ stage = "lan" /\ stage' = "wan" /\ up' = up \cup {"lan", "address"}
          \/ stage = "wan" /\ stage' = "firewall" /\ up' = up \cup {"wan"}
          \/ stage = "firewall" /\ stage' = "running" /\ up' = up \cup {"firewall"}
      BY <2>1, <2>3, <3>2
         DEF EnableForwarding, SetUpLo, SetUpLan, SetUpWan, ConfigureFirewall, At, Goes, Sets
    <3> QED BY <3>1, <3>2, <3>3, <3>4 DEF SetUpBy, Facilities
  <2> QED BY <2>2, <2>3
<1> QED BY <1>1, <1>2, CleanStartup

LEMMA FatalClean == ASSUME LifeInv, CleanInv, Fatal PROVE CleanInv'
<1>1. CASE Stops("restarting")
  BY <1>1, StopsClean
<1>2. CASE AutobootRefused /\ NoLoading
  BY <1>2 DEF AutobootRefused, Refused, Fails, NoLoading, LifeInv, KmodInv, KmodTypeOK,
              CleanInv, KernelClosed
<1> QED BY <1>1, <1>2 DEF Fatal

LEMMA KernelAsksClean ==
    ASSUME CleanInv, NEW p \in Helpers, KernelAsks(p)
    PROVE  CleanInv'
BY CleanRest DEF KernelAsks, StartHelper

\* The tasks, once start-up is over.
LEMMA TaskClean ==
    ASSUME LifeInv, CleanInv, failures' \in Nat, ~(\E state : Stops(state)),
           \/ MonitorStep \/ Signal \/ OpenButtons \/ ReaperStep \/ OrphanDies \/ ClockPanics
           \/ \E b \in Buttons : PowerButton(b) \/ ButtonGone(b)
    PROVE  CleanInv'
<1>1. Quiet
  BY DEF MonitorStep, MonitorStarts, MonitorPowersOff, MonitorFallsBack, OnlyMonitor, Signal,
         OpenButtons, PowerButton, ButtonGone, ReaperStep, ReaperStarts, ReaperWakes, ReapOne,
         ReapDone, OrphanDies, ReaperOnly, ClockPanics
<1>2. UNCHANGED failures \/ failures' = failures + 1 \/ failures' = failures + 2
  BY DEF MonitorStep, MonitorStarts, MonitorPowersOff, MonitorFallsBack, Signal,
         OpenButtons, PowerButton, ButtonGone, ReaperStep, ReaperStarts, ReaperWakes, ReapOne,
         ReapDone, OrphanDies, ClockPanics, Refused, AutobootRefused, Fails, Succeeds
<1>3. failures' = 0 => failures = 0
  BY <1>2 DEF LifeInv, KmodInv, KmodTypeOK
<1> QED BY <1>1, <1>3, CleanRest DEF Quiet, startup, processes

LEMMA CleanInit == Init => CleanInv
BY DEF Init, KmodBoot, LifeBoot, CleanInv, KernelClosed, CleanSoFar, SetUpBy

LEMMA CleanStep == LifeInv /\ LifeInv' /\ TriedInv /\ CleanInv /\ [Next]_vars => CleanInv'
<1> SUFFICES ASSUME LifeInv, LifeInv', TriedInv, CleanInv, [Next]_vars PROVE CleanInv'
  OBVIOUS
<1>1. CASE PowerOn \/ MainReturns \/ UNCHANGED vars
  <2>1. CASE MainReturns
    <3>1. UNCHANGED <<dep_lines, kernel, failed, failures>> /\ stage' = "returned"
      BY <2>1 DEF MainReturns, Goes, kmodVars
    <3>2. SetUpBy(stage') \subseteq up'
      BY <3>1 DEF SetUpBy
    <3> QED BY <3>1, <3>2, CleanStartup
  <2>2. CASE PowerOn \/ UNCHANGED vars
    BY <2>2, CleanRest DEF PowerOn, vars, kmodVars, processes, lifeVars, startup
  <2> QED BY <1>1, <2>1, <2>2
<1>2. CASE \E state : Stops(state)
  BY <1>2, StopsClean
<1>3. CASE StartupStep
  BY <1>3, MountClean, LoadClean, SetUpClean, FatalClean DEF StartupStep, LoadRequired, Processes
<1>4. CASE InitExits
  BY <1>4, StopsClean DEF InitExits
<1>5. CASE \E p \in Helpers : KernelAsks(p) \/ HelperLoads(p)
  BY <1>5, KernelAsksClean, LoadClean DEF HelperLoads, Processes
<1>6. CASE /\ ~(\E state : Stops(state))
           /\ \/ MonitorStep \/ Signal \/ OpenButtons \/ ReaperStep \/ OrphanDies
              \/ ClockPanics \/ \E b \in Buttons : PowerButton(b) \/ ButtonGone(b)
  <2>1. failures' \in Nat
    BY FailuresAssumption DEF LifeInv, KmodInv, KmodTypeOK
  <2> QED BY <1>6, <2>1, TaskClean
<1> QED BY <1>1, <1>2, <1>3, <1>4, <1>5, <1>6 DEF Next, MainStep

-----------------------------------------------------------------------------
(***************************************************************************)
(* Theorems                                                                *)
(***************************************************************************)

\* The state of start-up, of the tasks and of the loaders is what the code can
\* make of it, whatever fails and however often the machine restarts.
THEOREM TypeCorrect == Spec => []LifecycleTypeOK
<1> QED BY LifeInvariant, PTL DEF LifeInv

\* A module that a process has noted as loaded is in the kernel, whichever
\* processes load at the same time (kmod.rs, LOADED_MODULES).
THEOREM NotedIsLoaded == Spec => []CacheIsTrue
<1>1. LifeInv => CacheIsTrue
  BY DEF LifeInv, KmodInv
<1> QED BY <1>1, LifeInvariant, PTL

\* Loading from right to left is enough: where modules.dep is followed, no
\* module is refused unless a file that it needs could not be loaded.
THEOREM RightToLeft == Spec => []DependenciesFirst
<1>1. LifeInv => DependenciesFirst
  BY DEF LifeInv, KmodInv
<1> QED BY <1>1, LifeInvariant, PTL

\* Once main is done with its list, every module of it and every module that one
\* of them needs is in the kernel, unless its own file or one it needs could not be
\* loaded: no failure keeps what does not depend on it from being loaded.
THEOREM FailuresCostNoMore == Spec => []OnlyFailuresMissing
<1>1. Spec => [](LifeInv /\ TriedInv)
  BY InitInv, LifeStep, TriedInit, TriedStep, PTL DEF Spec
<1>2. LifeInv /\ TriedInv => OnlyFailuresMissing
  <2> SUFFICES ASSUME LifeInv, TriedInv, HasModulesDep, stage \in SettingUp,
                      NEW i \in DOMAIN Required,
                      NEW m \in Needs[Required[i]] \cup {Required[i]}
               PROVE  m \in kernel \/ ({m} \cup Needs[m]) \cap failed # {}
    BY DEF OnlyFailuresMissing, SettingUp
  <2>1. i \in 1 .. Len(Required)
    BY NamesAssumption
  <2>2. m \in Tried
    BY <2>1 DEF TriedInv, AllTried
  <2>3. m \in refused => dep_lines[m] # None
    BY DEF LifeInv, KmodInv, KmodTypeOK, DepLinesOK, HasModulesDep
  <2> QED BY <2>2, <2>3 DEF Tried, LifeInv, KmodInv, DependenciesFirst
<1> QED BY <1>1, <1>2, PTL

\* Init exits, and the kernel panics, only after the kernel has refused the
\* emergency reboot of main, of the monitor or of the panic hook.
THEOREM ExitIsLast == Spec => []InitExitsLast
<1>1. LifeInv => InitExitsLast
  BY DEF LifeInv, EndsHopeless, InitExitsLast
<1> QED BY <1>1, LifeInvariant, PTL

\* The reaper that sleeps on its stream has a SIGCHLD pending for every orphan
\* that has died since the stream is there.
THEOREM NoneUnnoticed == Spec => []NoZombieUnnoticed
<1>1. LifeInv => NoZombieUnnoticed
  BY DEF LifeInv, ReaperInv
<1> QED BY <1>1, LifeInvariant, PTL

\* A boot in which nothing fails sets everything up: the right modules are
\* loaded in time, and no step of start-up takes the way out of an error.
THEOREM BootsClean == Spec => []CleanBoot
<1>1. Spec => [](LifeInv /\ TriedInv /\ CleanInv)
  BY InitInv, LifeStep, TriedInit, TriedStep, CleanInit, CleanStep, PTL DEF Spec
<1>2. LifeInv /\ CleanInv => CleanBoot
  <2> SUFFICES ASSUME LifeInv, CleanInv, failures = 0, HasModulesDep
               PROVE  stage # "fatal" /\ (stage = "running" => up = Facilities)
    BY DEF CleanBoot
  <2>1. CleanSoFar
    BY DEF CleanInv
  <2> QED BY <2>1 DEF CleanSoFar, SetUpBy, LifeInv, LifecycleTypeOK
<1> QED BY <1>1, <1>2, PTL

\* run_as_modprobe resolves every alias to the module of the first line of
\* modules.alias whose pattern matches it, whatever the patterns and the alias:
\* the backtracking of wildcard_match misses no match and finds no false one.
THEOREM AliasesResolved == Spec => AliasesResolve
<1>1. \A alias \in Strings : (ResolveAlias(alias) = RightModule(alias))
  BY FirstLineDecides
<1>2. [Next]_vars => [~autoload /\ autoload' =>
          \A alias \in Strings : ResolveAlias(alias) = RightModule(alias)]_vars
  BY <1>1, Zenon
<1> QED BY <1>2, PTL DEF Spec, AliasesResolve
=============================================================================
