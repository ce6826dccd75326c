-------------------------- MODULE SecurityContexts --------------------------
(***************************************************************************)
(* What the checks of one WorkloadHardeningCheck test and what becomes of  *)
(* it: the security context each check fills from spec.securityContext     *)
(* (pkg/checks, GetSecurityContextForCheckType), its merge into the pod    *)
(* and container security contexts of the clone (pkg/util/securitycontext),*)
(* the recommendation merged from the successful checks, and the final run *)
(* that tests it.                                                          *)
(*                                                                         *)
(* All checks of one invocation fill the SAME copy of spec.securityContext *)
(* and hand it by reference to their runs, which read it later: when they  *)
(* apply it and again when they report it.  Only without that spec has     *)
(* each check a context of its own.                                        *)
(*                                                                         *)
(* A setting is the set of its values: empty when it is not set, and with  *)
(* several only for dropped capabilities.  seccompProfile stands for the   *)
(* settings that no check tests.  Init containers are like containers.     *)
(***************************************************************************)
EXTENDS Naturals, FiniteSets

CONSTANTS Container,           \* the containers of the workload
          Main,                \* the first of them
          Value,               \* the values of settings
          Nil,                 \* no context
          Scenario             \* spec.securityContext, run mode and pod template

Check == {"group", "user", "readOnlyRootFilesystem", "allowPrivilegeEscalation",
          "dropAllCapabilities"}
PodField == {"runAsUser", "runAsGroup", "fsGroup", "runAsNonRoot", "seccompProfile"}
ContainerField == {"runAsUser", "runAsGroup", "runAsNonRoot", "readOnlyRootFilesystem",
                   "allowPrivilegeEscalation", "capabilitiesDrop", "seccompProfile"}

PodContext == [PodField -> SUBSET Value]
ContainerContext == [ContainerField -> SUBSET Value]
Contexts == [pod : PodContext \cup {Nil}, container : ContainerContext \cup {Nil}]
Template == [pod : PodContext \cup {Nil},
             container : [Container -> ContainerContext \cup {Nil}]]
CheckRun == [ok : BOOLEAN, sc : Contexts, applied : Template]

NoContexts == [pod |-> [f \in PodField |-> {}], container |-> [f \in ContainerField |-> {}]]

ASSUME SecurityContextsAssumption ==
  /\ Main \in Container
  /\ {"1000", "true", "false", "ALL"} \subseteq Value
  /\ Nil \notin PodContext \cup ContainerContext \cup Contexts \cup Template \cup CheckRun
  /\ Scenario \subseteq [spec : Contexts \cup {Nil}, mode : {"parallel", "sequential"},
                         template : Template]

VARIABLES spec, template, mode,  \* the object's spec and the workload's pod template
          pc, left,            \* the reconciler, and the checks its loop still visits
          copy, sharing,       \* its copy of the spec, and the runs that refer to it
          run,                 \* where the run of each check is
          sc,                  \* the contexts each run refers to
          applied,             \* the pod template each run tests
          checkRuns,           \* what the finished runs reported
          analysed,            \* the reports the recommendation is made from
          rec,                 \* the recommendation
          final                \* the pod template the final run tests

specVars == <<spec, template, mode>>
loopVars == <<pc, left, copy, sharing>>
runVars == <<run, sc, applied, checkRuns>>
recVars == <<analysed, rec, final>>
vars == <<specVars, loopVars, runVars, recVars>>

TypeOK == /\ spec \in Contexts \cup {Nil} /\ template \in Template
          /\ mode \in {"parallel", "sequential"}
          /\ pc \in {"idle", "checks", "merge", "recommended"}
          /\ left \in SUBSET Check
          /\ copy \in Contexts \cup {Nil} /\ sharing \in SUBSET Check
          /\ run \in [Check -> {"none", "submitted", "applied"}]
          /\ sc \in [Check -> Contexts \cup {Nil}]
          /\ applied \in [Check -> Template \cup {Nil}]
          /\ checkRuns \in [Check -> CheckRun \cup {Nil}]
          /\ analysed \in [Check -> CheckRun \cup {Nil}]
          /\ rec \in Contexts \cup {Nil} /\ final \in Template \cup {Nil}

-----------------------------------------------------------------------------
(* Merging contexts.                                                       *)

Or(a, b) == IF a = {} THEN b ELSE a

MergePod(base, extends) ==
  IF base = Nil THEN extends
  ELSE IF extends = Nil THEN base
  ELSE [f \in PodField |-> Or(base[f], extends[f])]

\* Mutant: the merge overrides.
MergedOverriding(base, extends, f) ==
  IF f = "capabilitiesDrop" THEN base[f] \cup extends[f] ELSE Or(extends[f], base[f])

\* The one field the code forgets: runAsNonRoot stays as it is in the base.
Merged(base, extends, f) ==
  IF f = "capabilitiesDrop" THEN base[f] \cup extends[f]
  ELSE IF f = "runAsNonRoot" THEN base[f]
  ELSE Or(base[f], extends[f])

MergeContainer(base, extends) ==
  IF base = Nil THEN extends
  ELSE IF extends = Nil THEN base
  ELSE [f \in ContainerField |-> Merged(base, extends, f)]

ApplyTo(t, c) ==
  [pod |-> MergePod(t.pod, c.pod),
   container |-> [k \in Container |-> MergeContainer(t.container[k], c.container)]]

\* A setting that leaves nothing unset is kept by every later merge.
Extends(new, old, Field) ==
  old # Nil => /\ new # Nil
               /\ \A f \in Field : \/ new[f] = old[f] \/ old[f] = {}
                                   \/ f = "capabilitiesDrop" /\ old[f] \subseteq new[f]

-----------------------------------------------------------------------------
(* The checks: which of them a pod template requires, and what each fills  *)
(* in where the given context leaves it open.                              *)

Open(c, f) == IF c = Nil THEN TRUE ELSE c[f] = {}
NotSet(c, f, v) == IF c = Nil THEN TRUE ELSE c[f] # {v}

ShouldRun(c, t) ==
  \/ c = "group" /\ (Open(t.pod, "runAsGroup") \/ Open(t.pod, "fsGroup"))
  \/ c = "user" /\ (Open(t.pod, "runAsUser") \/ Open(t.pod, "runAsNonRoot"))
  \/ /\ c = "readOnlyRootFilesystem"
     /\ \E k \in Container : NotSet(t.container[k], c, "true")
  \/ /\ c = "allowPrivilegeEscalation"
     /\ \E k \in Container : NotSet(t.container[k], c, "false")
  \/ c = "dropAllCapabilities" /\ \E k \in Container : Open(t.container[k], "capabilitiesDrop")

Required == {c \in Check : ShouldRun(c, template)}

FilledByGroup(d) ==
  LET user == Or(d.pod["runAsUser"], {"1000"})
      group == Or(d.pod["runAsGroup"], user)
  IN [pod |-> [d.pod EXCEPT !["runAsUser"] = user, !["runAsGroup"] = group,
                            !["fsGroup"] = Or(@, group)],
      container |-> [d.container EXCEPT !["runAsUser"] = Or(@, user),
                                        !["runAsGroup"] = Or(@, group)]]

\* Mutant: the user check has another default than the group check.
FilledByOtherUser(d) ==
  [pod |-> [d.pod EXCEPT !["runAsUser"] = Or(@, {"2000"}), !["runAsNonRoot"] = Or(@, {"true"})],
   container |-> [d.container EXCEPT !["runAsUser"] = Or(@, {"2000"}),
                                     !["runAsNonRoot"] = Or(@, {"true"})]]

FilledByUser(d) ==
  [pod |-> [d.pod EXCEPT !["runAsUser"] = Or(@, {"1000"}), !["runAsNonRoot"] = Or(@, {"true"})],
   container |-> [d.container EXCEPT !["runAsUser"] = Or(@, {"1000"}),
                                     !["runAsNonRoot"] = Or(@, {"true"})]]

FilledField(d, f, v) == [d EXCEPT !.container = [d.container EXCEPT ![f] = Or(@, {v})]]

Filled(c, d) ==
  IF c = "group" THEN FilledByGroup(d)
  ELSE IF c = "user" THEN FilledByUser(d)
  ELSE IF c = "readOnlyRootFilesystem" THEN FilledField(d, c, "true")
  ELSE IF c = "allowPrivilegeEscalation" THEN FilledField(d, c, "false")
  ELSE FilledField(d, "capabilitiesDrop", "ALL")

\* A check dereferences the contexts it fills, and spec.securityContext may
\* have only one of the two.
Dereferences(c, d) == /\ c \in {"group", "user"} => d.pod # Nil
                      /\ d.container # Nil

-----------------------------------------------------------------------------
(* The reconciler's loop over the checks.                                  *)

Init == /\ \E s \in Scenario : spec = s.spec /\ mode = s.mode /\ template = s.template
        /\ pc = "idle" /\ left = {}
        /\ copy = Nil /\ sharing = {}
        /\ run = [c \in Check |-> "none"]
        /\ sc = [c \in Check |-> Nil]
        /\ applied = [c \in Check |-> Nil]
        /\ checkRuns = [c \in Check |-> Nil] /\ analysed = [c \in Check |-> Nil]
        /\ rec = Nil /\ final = Nil

Recorded(c) == checkRuns[c] # Nil
Unrecorded == {c \in Required : ~Recorded(c)}

\* Every invocation starts from a copy of the stored object.
BeginChecks == /\ pc = "idle" /\ rec = Nil
               /\ Unrecorded # {}
               /\ pc' = "checks" /\ left' = Unrecorded
               /\ copy' = spec /\ sharing' = {}
               /\ UNCHANGED <<specVars, runVars, recVars>>

\* A sequential invocation ends with the first check it handles.
Handled(c) == IF mode = "sequential" THEN {} ELSE left \ {c}

\* Mutant: the context made for want of a spec is kept as the spec.
SubmitKeeping(c) == /\ copy = Nil
                    /\ copy' = Filled(c, NoContexts)
                    /\ sharing' = sharing \cup {c}
                    /\ sc' = [sc EXCEPT ![c] = copy']

\* Submit, for a check without a run.  Filling the shared copy changes what all
\* the runs that refer to it will read.
SubmitAlone(c) == /\ copy = Nil
                  /\ sc' = [sc EXCEPT ![c] = Filled(c, NoContexts)]
                  /\ UNCHANGED <<copy, sharing>>

SubmitShared(c) == /\ copy # Nil
                   /\ Dereferences(c, copy)
                   /\ copy' = Filled(c, copy)
                   /\ sharing' = sharing \cup {c}
                   /\ sc' = [d \in Check |-> IF d \in sharing' THEN copy' ELSE sc[d]]

SubmitCheck(c) == /\ pc = "checks" /\ c \in left /\ run[c] = "none"
                  /\ SubmitAlone(c) \/ SubmitShared(c)
                  /\ run' = [run EXCEPT ![c] = "submitted"]
                  /\ left' = Handled(c)
                  /\ UNCHANGED <<specVars, pc, applied, checkRuns, recVars>>

\* A check that is still running is passed over.
SkipCheck(c) == /\ pc = "checks" /\ c \in left /\ run[c] # "none"
                /\ left' = Handled(c)
                /\ UNCHANGED <<specVars, pc, copy, sharing, runVars, recVars>>

\* For one that is overdue SetCondition fetches the object again, with its spec,
\* unless the call fails; the executor drops the Submit that follows.
Resubmit(c) ==
  /\ pc = "checks" /\ c \in left /\ run[c] # "none"
  /\ \E fetched \in BOOLEAN :
       LET fresh == IF fetched THEN spec ELSE copy
       IN /\ fresh # Nil => Dereferences(c, fresh)
          /\ copy' = IF fresh = Nil THEN Nil ELSE Filled(c, fresh)
          /\ sharing' = IF fetched THEN {} ELSE sharing
          /\ sc' = [d \in Check |-> IF d \in sharing' THEN copy' ELSE sc[d]]
  /\ left' = Handled(c)
  /\ UNCHANGED <<specVars, pc, run, applied, checkRuns, recVars>>

\* The nil pointer is dereferenced: the invocation panics, and is retried.
Panic(c) == /\ pc = "checks" /\ c \in left
            /\ copy # Nil /\ ~Dereferences(c, copy)
            /\ pc' = "idle" /\ left' = {}
            /\ copy' = Nil /\ sharing' = {}
            /\ UNCHANGED <<specVars, runVars, recVars>>

EndChecks == /\ pc = "checks" /\ left = {}
             /\ pc' = "idle" /\ copy' = Nil /\ sharing' = {}
             /\ UNCHANGED <<specVars, left, runVars, recVars>>

-----------------------------------------------------------------------------
(* The runs.                                                               *)

\* RunCheck, applySecurityContext: merges the contexts into the clone.
Apply(c) == /\ run[c] = "submitted"
            /\ run' = [run EXCEPT ![c] = "applied"]
            /\ applied' = [applied EXCEPT ![c] = ApplyTo(template, sc[c])]
            /\ UNCHANGED <<specVars, loopVars, sc, checkRuns, recVars>>

Return(c) == /\ run' = [run EXCEPT ![c] = "none"]
             /\ sc' = [sc EXCEPT ![c] = Nil]
             /\ applied' = [applied EXCEPT ![c] = Nil]
             /\ sharing' = sharing \ {c}
             /\ UNCHANGED <<specVars, pc, left, copy, recVars>>

\* Mutant: a failure is reported without its contexts.
ReportBare(c, ok) ==
  /\ run[c] = "applied"
  /\ checkRuns' = [checkRuns EXCEPT ![c] = [ok |-> ok, sc |-> IF ok THEN sc[c] ELSE Nil,
                                            applied |-> applied[c]]]
  /\ Return(c)

\* setStatusFinished: reports what the contexts are by now.
Report(c, ok) ==
  /\ run[c] = "applied"
  /\ checkRuns' = [checkRuns EXCEPT ![c] = [ok |-> ok, sc |-> sc[c], applied |-> applied[c]]]
  /\ Return(c)

\* A failure on the way, or a cancelled run: nothing is reported.
Fails(c) == /\ run[c] # "none"
            /\ Return(c)
            /\ UNCHANGED checkRuns

Restart == /\ run' = [c \in Check |-> "none"]
           /\ sc' = [c \in Check |-> Nil]
           /\ applied' = [c \in Check |-> Nil]
           /\ copy' = Nil /\ sharing' = {} /\ left' = {}
           /\ IF pc = "recommended" THEN UNCHANGED <<pc, rec>> ELSE pc' = "idle" /\ rec' = Nil
           /\ UNCHANGED <<specVars, checkRuns, analysed, final>>

-----------------------------------------------------------------------------
(* SetRecommendation, and the run that tests the recommendation.           *)

\* Mutant: failed checks are not skipped.
AnySuccessful == {c \in Check : analysed[c] # Nil}

Successful == {c \in Check : analysed[c] # Nil /\ analysed[c].ok}
OrElse(c, none) == IF c = Nil THEN none ELSE c

\* What the pod template sets comes first, of the first container only.
BeginRecommendation ==
  /\ pc = "idle" /\ rec = Nil
  /\ Unrecorded = {}
  /\ pc' = "merge" /\ analysed' = checkRuns /\ left' = Successful'
  /\ rec' = [pod |-> OrElse(template.pod, NoContexts.pod),
             container |-> OrElse(template.container[Main], NoContexts.container)]
  /\ UNCHANGED <<specVars, copy, sharing, runVars, final>>

\* The iteration of a Go map: in any order.
MergeCheck(c) ==
  /\ pc = "merge" /\ c \in left
  /\ rec' = [pod |-> MergePod(rec.pod, analysed[c].sc.pod),
             container |-> MergeContainer(rec.container, analysed[c].sc.container)]
  /\ left' = left \ {c}
  /\ UNCHANGED <<specVars, pc, copy, sharing, runVars, analysed, final>>

StoreRecommendation == /\ pc = "merge" /\ left = {}
                       /\ pc' = "recommended"
                       /\ UNCHANGED <<specVars, left, copy, sharing, runVars, recVars>>

\* Mutant: a field of the recommendation is forgotten.
GetAllButGroup(r) == [pod |-> [r.pod EXCEPT !["seccompProfile"] = {}, !["fsGroup"] = {}],
                      container |-> [r.container EXCEPT !["seccompProfile"] = {}]]

\* GetRecommendedSecurityContext: leaves out what no check tests.
GetRecommended(r) == [pod |-> [r.pod EXCEPT !["seccompProfile"] = {}],
                      container |-> [r.container EXCEPT !["seccompProfile"] = {}]]

FinalRun == /\ pc = "recommended" /\ final = Nil
            /\ final' = IF GetRecommended(rec) = NoContexts THEN template
                        ELSE ApplyTo(template, GetRecommended(rec))
            /\ UNCHANGED <<specVars, loopVars, runVars, analysed, rec>>

-----------------------------------------------------------------------------
ReconcilerStep == \/ BeginChecks
                  \/ \E c \in Check : SubmitCheck(c) \/ SkipCheck(c) \/ Resubmit(c) \/ Panic(c)
                  \/ EndChecks
                  \/ BeginRecommendation
                  \/ \E c \in Check : MergeCheck(c)
                  \/ StoreRecommendation
                  \/ FinalRun

RunStep(c) == Apply(c) \/ (\E ok \in BOOLEAN : Report(c, ok)) \/ Fails(c)

Next == ReconcilerStep \/ (\E c \in Check : RunStep(c)) \/ Restart

Spec == Init /\ [][Next]_vars

-----------------------------------------------------------------------------
(* Properties.                                                             *)

\* Where the contexts are not shared by runs at the same time.
Isolated == spec = Nil \/ mode = "sequential"
Given == IF spec = Nil THEN NoContexts ELSE spec

\* A check tests and reports its own settings on top of the given ones, and no
\* other check's, whatever ran before or at the same time (README: "isolating
\* the impact of each securityContext attribute").
ChecksAreIsolated ==
  Isolated => \A c \in Check : sc[c] # Nil => sc[c] = Filled(c, Given)

\* No merge takes back or changes what the pod template sets, in any run
\* (ApplySecurityContextToPodSpec), whatever else the contexts hold by then.
KeepsTemplate(t) == /\ Extends(t.pod, template.pod, PodField)
                    /\ \A k \in Container :
                         Extends(t.container[k], template.container[k], ContainerField)
TemplateIsKept ==
  /\ \A c \in Check : applied[c] # Nil => KeepsTemplate(applied[c])
  /\ final # Nil => KeepsTemplate(final)

\* What is recommended beyond the template's own settings ran in a check that
\* was successful: no setting of a failed check comes in through another one.
Passed == {c \in Check : analysed[c] # Nil /\ analysed[c].ok}
Ran(f, v) == \E c \in Passed :
               LET t == analysed[c].applied IN t.pod # Nil /\ v \in t.pod[f]
RanInMain(f, v) == \E c \in Passed :
                     LET k == analysed[c].applied.container[Main] IN k # Nil /\ v \in k[f]
OnlyTestedIsRecommended ==
  (Isolated /\ rec # Nil) =>
    /\ \A f \in PodField : \A v \in rec.pod[f] :
         Ran(f, v) \/ (template.pod # Nil /\ v \in template.pod[f])
    /\ \A f \in ContainerField : \A v \in rec.container[f] :
         \/ RanInMain(f, v)
         \/ template.container[Main] # Nil /\ v \in template.container[Main][f]

\* The final run tests the recommendation as it is stored: only the settings
\* that no check tests are left out (GetRecommendedSecurityContext).
FinalRunIsRecommended ==
  final # Nil =>
    /\ \A f \in PodField \ {"seccompProfile"} :
         OrElse(final.pod, NoContexts.pod)[f] = rec.pod[f]
    /\ \A f \in ContainerField \ {"seccompProfile"} :
         OrElse(final.container[Main], NoContexts.container)[f] = rec.container[f]

\* The recommendation does not depend on the order of the merge: where the
\* template leaves a setting open, all successful checks agree on it.  Two of
\* them disagree where the spec gives the pod another user than the default
\* and the containers none; runAsNonRoot of containers is never merged.
NoUserConflict == spec # Nil /\ spec.pod # Nil /\ spec.container # Nil =>
                    Or(spec.pod["runAsUser"], {"1000"}) = Or(spec.container["runAsUser"], {"1000"})
AgreedInPod(f) == UNION {OrElse(analysed[c].sc.pod, NoContexts.pod)[f] : c \in Passed}
AgreedInMain(f) ==
  UNION {OrElse(analysed[c].sc.container, NoContexts.container)[f] : c \in Passed}
RecommendationIsUnique ==
  (pc = "recommended" /\ NoUserConflict) =>
    /\ \A f \in PodField :
         rec.pod[f] = Or(OrElse(template.pod, NoContexts.pod)[f], AgreedInPod(f))
    /\ \A f \in ContainerField \ {"runAsNonRoot"} :
         LET own == OrElse(template.container[Main], NoContexts.container)[f]
         IN rec.container[f] = IF f = "capabilitiesDrop" THEN own \cup AgreedInMain(f)
                               ELSE Or(own, AgreedInMain(f))
=============================================================================
