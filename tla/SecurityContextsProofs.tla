----------------------- MODULE SecurityContextsProofs -----------------------
(***************************************************************************)
(* What SecurityContexts guarantees for every pod template, every          *)
(* spec.securityContext and every value of the settings: types, that a     *)
(* run never takes back what the template sets, and that checks do not see *)
(* each other's settings where no context is shared.                       *)
(*                                                                         *)
(* A run reads its contexts long after it was submitted, so the invariant  *)
(* says what the contexts of a run are at every moment (RunsHaveContexts), *)
(* and, for the isolation, that the copy of the spec is nobody's and       *)
(* unfilled whenever the loop is about to fill it (CopyIsFresh).           *)
(***************************************************************************)
EXTENDS SecurityContexts, TLAPS

RunsHaveContexts ==
  \A c \in Check : /\ run[c] # "none" => sc[c] # Nil
                   /\ run[c] = "applied" => applied[c] # Nil
SharersHaveCopy == sharing # {} => copy # Nil
MergesReports == pc = "merge" => \A c \in left : analysed[c] # Nil
MergesContexts ==
  pc \in {"merge", "recommended"} => rec # Nil /\ rec.pod # Nil /\ rec.container # Nil

TInv == /\ TypeOK /\ RunsHaveContexts /\ SharersHaveCopy /\ MergesReports /\ MergesContexts

-----------------------------------------------------------------------------
(* The operators on contexts.                                              *)

LEMMA FieldsOfContexts ==
  /\ \A c \in Contexts : c.pod \in PodContext \cup {Nil} /\ c.container \in ContainerContext \cup {Nil}
  /\ \A t \in Template : /\ t.pod \in PodContext \cup {Nil}
                         /\ t.container \in [Container -> ContainerContext \cup {Nil}]
  /\ \A r \in CheckRun : r.ok \in BOOLEAN /\ r.sc \in Contexts /\ r.applied \in Template
BY DEF Contexts, Template, CheckRun

LEMMA NilIsNone ==
  /\ Nil \notin PodContext /\ Nil \notin ContainerContext /\ Nil \notin Contexts
  /\ Nil \notin Template /\ Nil \notin CheckRun
BY SecurityContextsAssumption

LEMMA NoContextsType ==
  /\ NoContexts \in Contexts
  /\ NoContexts.pod \in PodContext /\ NoContexts.container \in ContainerContext
  /\ NoContexts.pod # Nil /\ NoContexts.container # Nil
<1>1. [f \in PodField |-> {}] \in PodContext /\ [f \in ContainerField |-> {}] \in ContainerContext
  BY DEF PodContext, ContainerContext
<1>2. QED
  BY <1>1, NilIsNone DEF NoContexts, Contexts

LEMMA OrType ==
  ASSUME NEW a \in SUBSET Value, NEW b \in SUBSET Value
  PROVE  Or(a, b) \in SUBSET Value
BY DEF Or

LEMMA MergePodType ==
  ASSUME NEW base \in PodContext \cup {Nil}, NEW extends \in PodContext \cup {Nil}
  PROVE  /\ MergePod(base, extends) \in PodContext \cup {Nil}
         /\ base # Nil => MergePod(base, extends) # Nil
<1>1. CASE base = Nil \/ extends = Nil
  BY <1>1 DEF MergePod
<1>2. CASE base # Nil /\ extends # Nil
  <2>1. \A f \in PodField : Or(base[f], extends[f]) \in SUBSET Value
    BY <1>2, OrType DEF PodContext
  <2>2. MergePod(base, extends) \in PodContext
    BY <1>2, <2>1 DEF MergePod, PodContext
  <2>3. QED
    BY <2>2, NilIsNone
<1>3. QED
  BY <1>1, <1>2

LEMMA MergeContainerType ==
  ASSUME NEW base \in ContainerContext \cup {Nil}, NEW extends \in ContainerContext \cup {Nil}
  PROVE  /\ MergeContainer(base, extends) \in ContainerContext \cup {Nil}
         /\ base # Nil => MergeContainer(base, extends) # Nil
<1>1. CASE base = Nil \/ extends = Nil
  BY <1>1 DEF MergeContainer
<1>2. CASE base # Nil /\ extends # Nil
  <2>1. \A f \in ContainerField : Merged(base, extends, f) \in SUBSET Value
    BY <1>2 DEF ContainerContext, Merged, Or
  <2>2. MergeContainer(base, extends) \in ContainerContext
    BY <1>2, <2>1 DEF MergeContainer, ContainerContext
  <2>3. QED
    BY <2>2, NilIsNone
<1>3. QED
  BY <1>1, <1>2

LEMMA ApplyToType ==
  ASSUME NEW t \in Template, NEW c \in Contexts
  PROVE  ApplyTo(t, c) \in Template
<1>1. MergePod(t.pod, c.pod) \in PodContext \cup {Nil}
  BY FieldsOfContexts, MergePodType
<1>2. \A k \in Container : MergeContainer(t.container[k], c.container) \in ContainerContext \cup {Nil}
  BY FieldsOfContexts, MergeContainerType
<1>3. QED
  BY <1>1, <1>2 DEF ApplyTo, Template

\* A merge never takes back or changes what its base sets.
LEMMA MergesKeepTheBase ==
  /\ \A base, extends \in PodContext \cup {Nil} :
       Extends(MergePod(base, extends), base, PodField)
  /\ \A base, extends \in ContainerContext \cup {Nil} :
       Extends(MergeContainer(base, extends), base, ContainerField)
<1>1. ASSUME NEW base \in PodContext \cup {Nil}, NEW extends \in PodContext \cup {Nil}, base # Nil
      PROVE  Extends(MergePod(base, extends), base, PodField)
  <2>1. \A f \in PodField : MergePod(base, extends)[f] = base[f] \/ base[f] = {}
    BY <1>1 DEF MergePod, Or
  <2>2. QED
    BY <1>1, <2>1, MergePodType DEF Extends
<1>2. ASSUME NEW base \in ContainerContext \cup {Nil}, NEW extends \in ContainerContext \cup {Nil},
             base # Nil
      PROVE  Extends(MergeContainer(base, extends), base, ContainerField)
  <2>1. \A f \in ContainerField :
          \/ MergeContainer(base, extends)[f] = base[f] \/ base[f] = {}
          \/ f = "capabilitiesDrop" /\ base[f] \subseteq MergeContainer(base, extends)[f]
    BY <1>2 DEF MergeContainer, Merged, Or
  <2>2. QED
    BY <1>2, <2>1, MergeContainerType DEF Extends
<1>3. QED
  BY <1>1, <1>2 DEF Extends

LEMMA TemplatesAreKept ==
  ASSUME template \in Template, NEW c \in Contexts
  PROVE  KeepsTemplate(ApplyTo(template, c)) /\ KeepsTemplate(template)
<1>1. /\ ApplyTo(template, c).pod = MergePod(template.pod, c.pod)
      /\ \A k \in Container : ApplyTo(template, c).container[k]
                                = MergeContainer(template.container[k], c.container)
  BY DEF ApplyTo
<1>2. KeepsTemplate(ApplyTo(template, c))
  BY <1>1, FieldsOfContexts, MergesKeepTheBase DEF KeepsTemplate
<1>3. KeepsTemplate(template)
  BY DEF KeepsTemplate, Extends
<1>4. QED
  BY <1>2, <1>3

LEMMA FilledByGroupType ==
  ASSUME NEW d \in Contexts, d.pod # Nil, d.container # Nil
  PROVE  FilledByGroup(d) \in Contexts
<1> DEFINE user == Or(d.pod["runAsUser"], {"1000"})
           group == Or(d.pod["runAsGroup"], user)
<1>1. d.pod \in PodContext /\ d.container \in ContainerContext
  BY FieldsOfContexts
<1>2. {"1000"} \in SUBSET Value
  BY SecurityContextsAssumption
<1>3. user \in SUBSET Value /\ group \in SUBSET Value
  BY <1>1, <1>2 DEF Or, PodContext, PodField
<1>4. [d.pod EXCEPT !["runAsUser"] = user, !["runAsGroup"] = group,
                    !["fsGroup"] = Or(@, group)] \in PodContext
  BY <1>1, <1>3 DEF Or, PodContext, PodField
<1>5. [d.container EXCEPT !["runAsUser"] = Or(@, user), !["runAsGroup"] = Or(@, group)]
        \in ContainerContext
  BY <1>1, <1>3 DEF Or, ContainerContext, ContainerField
<1>6. QED
  BY <1>4, <1>5 DEF FilledByGroup, Contexts

LEMMA FilledByUserType ==
  ASSUME NEW d \in Contexts, d.pod # Nil, d.container # Nil
  PROVE  FilledByUser(d) \in Contexts
<1>1. d.pod \in PodContext /\ d.container \in ContainerContext
  BY FieldsOfContexts
<1>2. {"1000"} \in SUBSET Value /\ {"true"} \in SUBSET Value
  BY SecurityContextsAssumption
<1>3. [d.pod EXCEPT !["runAsUser"] = Or(@, {"1000"}), !["runAsNonRoot"] = Or(@, {"true"})]
        \in PodContext
  BY <1>1, <1>2 DEF Or, PodContext, PodField
<1>4. [d.container EXCEPT !["runAsUser"] = Or(@, {"1000"}), !["runAsNonRoot"] = Or(@, {"true"})]
        \in ContainerContext
  BY <1>1, <1>2 DEF Or, ContainerContext, ContainerField
<1>5. QED
  BY <1>3, <1>4 DEF FilledByUser, Contexts

LEMMA FilledFieldType ==
  ASSUME NEW d \in Contexts, d.container # Nil, NEW f \in ContainerField, NEW v \in Value
  PROVE  FilledField(d, f, v) \in Contexts
<1>1. d.pod \in PodContext \cup {Nil} /\ d.container \in ContainerContext
  BY FieldsOfContexts
<1>2. [d.container EXCEPT ![f] = Or(@, {v})] \in ContainerContext
  BY <1>1 DEF Or, ContainerContext
<1>3. QED
  BY <1>1, <1>2 DEF FilledField, Contexts

LEMMA FilledType ==
  ASSUME NEW c \in Check, NEW d \in Contexts, Dereferences(c, d)
  PROVE  Filled(c, d) \in Contexts /\ Filled(c, d) # Nil
<1>1. "true" \in Value /\ "false" \in Value /\ "ALL" \in Value
  BY SecurityContextsAssumption
<1>2. {"readOnlyRootFilesystem", "allowPrivilegeEscalation", "capabilitiesDrop"}
        \subseteq ContainerField
  BY DEF ContainerField
<1>3. d.container # Nil /\ (c \in {"group", "user"} => d.pod # Nil)
  BY DEF Dereferences
<1>4. Filled(c, d) \in Contexts
  BY <1>1, <1>2, <1>3, FilledByGroupType, FilledByUserType, FilledFieldType DEF Filled, Check
<1>5. QED
  BY <1>4, NilIsNone

-----------------------------------------------------------------------------
(* Types.                                                                  *)

LEMMA InitTypes == Init => TInv
<1> SUFFICES ASSUME Init PROVE TInv
  OBVIOUS
<1>1. /\ spec \in Contexts \cup {Nil} /\ template \in Template
      /\ mode \in {"parallel", "sequential"}
  BY SecurityContextsAssumption DEF Init
<1>2. QED
  BY <1>1 DEF Init, TInv, TypeOK, RunsHaveContexts, SharersHaveCopy, MergesReports, MergesContexts

\* What a step of the loop does to the contexts of the runs.
LEMMA SharedUpdateType ==
  ASSUME TInv, NEW S \in SUBSET Check, NEW d \in Contexts
  PROVE  [c \in Check |-> IF c \in S THEN d ELSE sc[c]] \in [Check -> Contexts \cup {Nil}]
BY DEF TInv, TypeOK

LEMMA SubmitTypes ==
  ASSUME TInv, NEW c \in Check, SubmitCheck(c)
  PROVE  TInv'
<1> USE DEF TInv
<1>1. TypeOK
  OBVIOUS
<1>2. /\ left' \in SUBSET Check
      /\ run' \in [Check -> {"none", "submitted", "applied"}]
      /\ \A d \in Check \ {c} : run'[d] = run[d]
      /\ run'[c] = "submitted" /\ pc = "checks"
  BY DEF SubmitCheck, Handled, TypeOK
<1>3. /\ copy' \in Contexts \cup {Nil} /\ sharing' \in SUBSET Check
      /\ sc' \in [Check -> Contexts \cup {Nil}] /\ sc'[c] # Nil
      /\ \A d \in Check : sc[d] # Nil => sc'[d] # Nil
      /\ SharersHaveCopy'
  <2>1. CASE SubmitAlone(c)
    <3>1. Dereferences(c, NoContexts)
      BY NoContextsType DEF Dereferences
    <3>2. Filled(c, NoContexts) \in Contexts /\ Filled(c, NoContexts) # Nil
      BY <3>1, FilledType, NoContextsType
    <3>3. QED
      BY <2>1, <3>2 DEF SubmitAlone, TypeOK, SharersHaveCopy
  <2>2. CASE SubmitShared(c)
    <3>1. copy \in Contexts
      BY <2>2 DEF SubmitShared, TypeOK
    <3>2. copy' \in Contexts /\ copy' # Nil
      BY <2>2, <3>1, FilledType DEF SubmitShared
    <3>3. sharing' \in SUBSET Check /\ c \in sharing'
      BY <2>2 DEF SubmitShared, TypeOK
    <3>4. sc' = [d \in Check |-> IF d \in sharing' THEN copy' ELSE sc[d]]
      BY <2>2 DEF SubmitShared
    <3>5. QED
      BY <3>2, <3>3, <3>4 DEF TypeOK, SharersHaveCopy
  <2>3. QED
    BY <2>1, <2>2 DEF SubmitCheck
<1>4. TypeOK'
  BY <1>2, <1>3 DEF SubmitCheck, TypeOK, specVars, recVars
<1>5. RunsHaveContexts'
  BY <1>2, <1>3 DEF SubmitCheck, RunsHaveContexts
<1>6. MergesReports' /\ MergesContexts'
  BY <1>2 DEF SubmitCheck, MergesReports, MergesContexts
<1>7. QED
  BY <1>3, <1>4, <1>5, <1>6

LEMMA ResubmitTypes ==
  ASSUME TInv, NEW c \in Check, Resubmit(c)
  PROVE  TInv'
<1> USE DEF TInv
<1>1. PICK fetched \in BOOLEAN :
        LET fresh == IF fetched THEN spec ELSE copy
        IN /\ fresh # Nil => Dereferences(c, fresh)
           /\ copy' = IF fresh = Nil THEN Nil ELSE Filled(c, fresh)
           /\ sharing' = IF fetched THEN {} ELSE sharing
           /\ sc' = [d \in Check |-> IF d \in sharing' THEN copy' ELSE sc[d]]
  BY DEF Resubmit
<1> DEFINE fresh == IF fetched THEN spec ELSE copy
<1>2. fresh \in Contexts \cup {Nil}
  BY DEF TypeOK
<1>3. fresh # Nil => copy' \in Contexts /\ copy' # Nil
  BY <1>1, <1>2, FilledType
<1>4. fresh = Nil => copy' = Nil
  BY <1>1
<1>5. sharing' \in SUBSET Check /\ (sharing' # {} => fresh # Nil)
  BY <1>1 DEF TypeOK, SharersHaveCopy
<1>6. /\ sc' \in [Check -> Contexts \cup {Nil}]
      /\ \A d \in Check : sc[d] # Nil => sc'[d] # Nil
  BY <1>1, <1>3, <1>5 DEF TypeOK
<1>7. pc = "checks" /\ pc' = pc /\ left' \in SUBSET Check
  BY DEF Resubmit, Handled, TypeOK
<1>8. TypeOK'
  BY <1>3, <1>4, <1>5, <1>6, <1>7 DEF Resubmit, TypeOK, specVars, recVars
<1>9. RunsHaveContexts' /\ SharersHaveCopy'
  BY <1>3, <1>5, <1>6 DEF Resubmit, RunsHaveContexts, SharersHaveCopy
<1>10. MergesReports' /\ MergesContexts'
  BY <1>7 DEF MergesReports, MergesContexts
<1>11. QED
  BY <1>8, <1>9, <1>10

\* The steps of the loop that submit nothing.
LEMMA LoopTypes ==
  ASSUME TInv, BeginChecks \/ EndChecks \/ \E c \in Check : SkipCheck(c) \/ Panic(c)
  PROVE  TInv'
<1> USE DEF TInv
<1>1. CASE BeginChecks
  BY <1>1 DEF BeginChecks, Unrecorded, Required, TypeOK, RunsHaveContexts, SharersHaveCopy,
              MergesReports, MergesContexts, specVars, runVars, recVars
<1>2. CASE EndChecks
  BY <1>2 DEF EndChecks, TypeOK, RunsHaveContexts, SharersHaveCopy,
              MergesReports, MergesContexts, specVars, runVars, recVars
<1>3. ASSUME NEW c \in Check, SkipCheck(c)
      PROVE  TInv'
  BY <1>3 DEF SkipCheck, Handled, TypeOK, RunsHaveContexts, SharersHaveCopy,
              MergesReports, MergesContexts, specVars, runVars, recVars
<1>4. ASSUME NEW c \in Check, Panic(c)
      PROVE  TInv'
  BY <1>4 DEF Panic, TypeOK, RunsHaveContexts, SharersHaveCopy,
              MergesReports, MergesContexts, specVars, runVars, recVars
<1>5. QED
  BY <1>1, <1>2, <1>3, <1>4

LEMMA ApplyTypes ==
  ASSUME TInv, NEW c \in Check, Apply(c)
  PROVE  TInv'
<1> USE DEF TInv
<1>1. sc[c] \in Contexts /\ template \in Template
  BY DEF Apply, RunsHaveContexts, TypeOK
<1>2. ApplyTo(template, sc[c]) \in Template /\ ApplyTo(template, sc[c]) # Nil
  BY <1>1, ApplyToType, NilIsNone
<1>3. /\ run' \in [Check -> {"none", "submitted", "applied"}]
      /\ applied' \in [Check -> Template \cup {Nil}]
      /\ applied'[c] # Nil
      /\ \A d \in Check \ {c} : run'[d] = run[d] /\ applied'[d] = applied[d]
  BY <1>2 DEF Apply, TypeOK
<1>4. TypeOK'
  BY <1>3 DEF Apply, TypeOK, specVars, loopVars, recVars
<1>5. RunsHaveContexts'
  BY <1>3 DEF Apply, RunsHaveContexts
<1>6. SharersHaveCopy' /\ MergesReports' /\ MergesContexts'
  BY DEF Apply, SharersHaveCopy, MergesReports, MergesContexts, loopVars, recVars
<1>7. QED
  BY <1>4, <1>5, <1>6

LEMMA ReturnTypes ==
  ASSUME TInv, NEW c \in Check, Return(c),
         checkRuns' \in [Check -> CheckRun \cup {Nil}]
  PROVE  TInv'
<1> USE DEF TInv
<1>1. /\ run' \in [Check -> {"none", "submitted", "applied"}]
      /\ sc' \in [Check -> Contexts \cup {Nil}]
      /\ applied' \in [Check -> Template \cup {Nil}]
      /\ run'[c] = "none"
      /\ \A d \in Check \ {c} : run'[d] = run[d] /\ sc'[d] = sc[d] /\ applied'[d] = applied[d]
  BY DEF Return, TypeOK
<1>2. TypeOK'
  BY <1>1 DEF Return, TypeOK, specVars, recVars
<1>3. RunsHaveContexts'
  BY <1>1 DEF RunsHaveContexts
<1>4. SharersHaveCopy' /\ MergesReports' /\ MergesContexts'
  BY DEF Return, SharersHaveCopy, MergesReports, MergesContexts, recVars
<1>5. QED
  BY <1>2, <1>3, <1>4

LEMMA RunTypes ==
  ASSUME TInv, NEW c \in Check, RunStep(c)
  PROVE  TInv'
<1>1. CASE Apply(c)
  BY <1>1, ApplyTypes
<1>2. ASSUME NEW ok \in BOOLEAN, Report(c, ok)
      PROVE  TInv'
  <2>1. sc[c] \in Contexts /\ applied[c] \in Template
    BY <1>2 DEF Report, TInv, RunsHaveContexts, TypeOK
  <2>2. [ok |-> ok, sc |-> sc[c], applied |-> applied[c]] \in CheckRun
    BY <2>1 DEF CheckRun
  <2>3. checkRuns' \in [Check -> CheckRun \cup {Nil}]
    BY <1>2, <2>2 DEF Report, TInv, TypeOK
  <2>4. QED
    BY <1>2, <2>3, ReturnTypes DEF Report
<1>3. CASE Fails(c)
  BY <1>3, ReturnTypes DEF Fails, TInv, TypeOK
<1>4. QED
  BY <1>1, <1>2, <1>3 DEF RunStep

LEMMA RestartTypes ==
  ASSUME TInv, Restart
  PROVE  TInv'
<1>1. TypeOK'
  BY DEF TInv, Restart, TypeOK, specVars
<1>2. RunsHaveContexts' /\ SharersHaveCopy' /\ MergesReports' /\ MergesContexts'
  BY DEF TInv, Restart, RunsHaveContexts, SharersHaveCopy, MergesReports, MergesContexts
<1>3. QED
  BY <1>1, <1>2 DEF TInv

LEMMA OrElseTypes ==
  /\ \A c \in PodContext \cup {Nil} : OrElse(c, NoContexts.pod) \in PodContext
  /\ \A c \in ContainerContext \cup {Nil} : OrElse(c, NoContexts.container) \in ContainerContext
BY NoContextsType DEF OrElse

LEMMA RecommendationTypes ==
  ASSUME TInv, \/ BeginRecommendation \/ StoreRecommendation \/ FinalRun
               \/ \E c \in Check : MergeCheck(c)
  PROVE  TInv'
<1> USE DEF TInv
<1>1. CASE BeginRecommendation
  <2>1. rec' \in Contexts /\ rec'.pod # Nil /\ rec'.container # Nil
    <3>1. /\ template.pod \in PodContext \cup {Nil}
          /\ template.container[Main] \in ContainerContext \cup {Nil}
      BY FieldsOfContexts, SecurityContextsAssumption DEF TypeOK
    <3>2. /\ OrElse(template.pod, NoContexts.pod) \in PodContext
          /\ OrElse(template.container[Main], NoContexts.container) \in ContainerContext
      BY <3>1, OrElseTypes
    <3>3. /\ rec'.pod = OrElse(template.pod, NoContexts.pod)
          /\ rec'.container = OrElse(template.container[Main], NoContexts.container)
      BY <1>1 DEF BeginRecommendation
    <3>4. QED
      BY <1>1, <3>2, <3>3, NilIsNone DEF BeginRecommendation, Contexts
  <2>2. left' \in SUBSET Check /\ \A c \in left' : analysed'[c] # Nil
    BY <1>1 DEF BeginRecommendation, Successful
  <2>3. TypeOK'
    BY <1>1, <2>1, <2>2 DEF BeginRecommendation, TypeOK, specVars, runVars
  <2>4. RunsHaveContexts' /\ SharersHaveCopy'
    BY <1>1 DEF BeginRecommendation, RunsHaveContexts, SharersHaveCopy, runVars
  <2>5. MergesReports' /\ MergesContexts'
    BY <2>1, <2>2, NilIsNone DEF MergesReports, MergesContexts
  <2>6. QED
    BY <2>3, <2>4, <2>5
<1>2. ASSUME NEW c \in Check, MergeCheck(c)
      PROVE  TInv'
  <2>1. analysed[c] \in CheckRun /\ rec \in Contexts /\ rec.pod # Nil /\ rec.container # Nil
    BY <1>2 DEF MergeCheck, MergesReports, MergesContexts, TypeOK
  <2>2. rec' \in Contexts /\ rec'.pod # Nil /\ rec'.container # Nil
    <3>1. /\ MergePod(rec.pod, analysed[c].sc.pod) \in PodContext \cup {Nil}
          /\ MergePod(rec.pod, analysed[c].sc.pod) # Nil
      BY <2>1, FieldsOfContexts, MergePodType
    <3>2. /\ MergeContainer(rec.container, analysed[c].sc.container) \in ContainerContext \cup {Nil}
          /\ MergeContainer(rec.container, analysed[c].sc.container) # Nil
      BY <2>1, FieldsOfContexts, MergeContainerType
    <3>3. QED
      BY <1>2, <3>1, <3>2 DEF MergeCheck, Contexts
  <2>3. TypeOK'
    BY <1>2, <2>2 DEF MergeCheck, TypeOK, specVars, runVars
  <2>4. RunsHaveContexts' /\ SharersHaveCopy' /\ MergesReports'
    BY <1>2 DEF MergeCheck, RunsHaveContexts, SharersHaveCopy, MergesReports, runVars
  <2>5. MergesContexts'
    BY <2>2, NilIsNone DEF MergesContexts
  <2>6. QED
    BY <2>3, <2>4, <2>5
<1>3. CASE StoreRecommendation
  BY <1>3 DEF StoreRecommendation, TypeOK, RunsHaveContexts, SharersHaveCopy, MergesReports,
              MergesContexts, specVars, runVars, recVars
<1>4. CASE FinalRun
  <2>1. GetRecommended(rec) \in Contexts
    <3>1. rec.pod \in PodContext /\ rec.container \in ContainerContext
      BY <1>4, FieldsOfContexts DEF FinalRun, MergesContexts, TypeOK
    <3>2. QED
      BY <3>1 DEF GetRecommended, Contexts, PodContext, ContainerContext
  <2>2. final' \in Template
    BY <1>4, <2>1, ApplyToType DEF FinalRun, TypeOK
  <2>3. QED
    BY <1>4, <2>2 DEF FinalRun, TypeOK, RunsHaveContexts, SharersHaveCopy, MergesReports,
                      MergesContexts, specVars, loopVars, runVars
<1>5. QED
  BY <1>1, <1>2, <1>3, <1>4

LEMMA NextTypes == TInv /\ [Next]_vars => TInv'
<1> SUFFICES ASSUME TInv, [Next]_vars PROVE TInv'
  OBVIOUS
<1>1. CASE ReconcilerStep
  BY <1>1, SubmitTypes, ResubmitTypes, LoopTypes, RecommendationTypes DEF ReconcilerStep
<1>2. ASSUME NEW c \in Check, RunStep(c)
      PROVE  TInv'
  BY <1>2, RunTypes
<1>3. CASE Restart
  BY <1>3, RestartTypes
<1>4. CASE UNCHANGED vars
  BY <1>4 DEF TInv, TypeOK, RunsHaveContexts, SharersHaveCopy, MergesReports, MergesContexts,
              vars, specVars, loopVars, runVars, recVars
<1>5. QED
  BY <1>1, <1>2, <1>3, <1>4 DEF Next

LEMMA TypesInvariant == Spec => []TInv
<1>1. QED
  BY InitTypes, NextTypes, PTL DEF Spec

\* Every variable keeps its type, whatever the template, the spec and the mode.
THEOREM TypeCorrect == Spec => []TypeOK
<1>1. TInv => TypeOK
  BY DEF TInv
<1>2. QED
  BY <1>1, TypesInvariant, PTL

-----------------------------------------------------------------------------
(* The template is kept.                                                   *)

\* Object and workload are not changed.
LEMMA GivenIsFixed == [Next]_vars => UNCHANGED specVars
<1> SUFFICES ASSUME [Next]_vars PROVE UNCHANGED specVars
  OBVIOUS
<1>1. CASE ReconcilerStep
  BY <1>1 DEF ReconcilerStep, BeginChecks, SubmitCheck, SkipCheck, Resubmit, Panic, EndChecks,
              BeginRecommendation, MergeCheck, StoreRecommendation, FinalRun
<1>2. CASE (\E c \in Check : RunStep(c)) \/ Restart
  BY <1>2 DEF RunStep, Apply, Report, Fails, Return, Restart
<1>3. CASE UNCHANGED vars
  BY <1>3 DEF vars
<1>4. QED
  BY <1>1, <1>2, <1>3 DEF Next

\* A template to be tested is the old one or a merge into the workload's.
LEMMA TestedTemplates ==
  ASSUME TInv, [Next]_vars
  PROVE  /\ \A c \in Check : applied'[c] \in {Nil, applied[c], ApplyTo(template, sc[c])}
         /\ \A c \in Check : applied'[c] \notin {Nil, applied[c]} => sc[c] \in Contexts
         /\ \/ final' \in {final, template}
            \/ final' = ApplyTo(template, GetRecommended(rec)) /\ GetRecommended(rec) \in Contexts
<1>1. CASE FinalRun
  <2>1. rec.pod \in PodContext /\ rec.container \in ContainerContext
    BY <1>1, FieldsOfContexts DEF FinalRun, TInv, MergesContexts, TypeOK
  <2>2. GetRecommended(rec) \in Contexts
    BY <2>1 DEF GetRecommended, Contexts, PodContext, ContainerContext
  <2>3. QED
    BY <1>1, <2>2 DEF FinalRun, loopVars, runVars
<1>2. CASE ReconcilerStep /\ ~FinalRun
  BY <1>2 DEF ReconcilerStep, BeginChecks, SubmitCheck, SkipCheck, Resubmit, Panic, EndChecks,
              BeginRecommendation, MergeCheck, StoreRecommendation, runVars, recVars
<1>3. ASSUME NEW c \in Check, RunStep(c)
      PROVE  /\ final' = final
             /\ \A d \in Check : applied'[d] \in {Nil, applied[d], ApplyTo(template, sc[d])}
             /\ \A d \in Check : applied'[d] \notin {Nil, applied[d]} => sc[d] \in Contexts
  <2>1. applied \in [Check -> Template \cup {Nil}] /\ sc \in [Check -> Contexts \cup {Nil}]
    BY DEF TInv, TypeOK
  <2>2. CASE Apply(c)
    <3>1. sc[c] \in Contexts
      BY <2>1, <2>2 DEF Apply, TInv, RunsHaveContexts
    <3>2. QED
      BY <2>1, <2>2, <3>1 DEF Apply, recVars
  <2>3. CASE Return(c)
    BY <2>1, <2>3 DEF Return, recVars
  <2>4. QED
    BY <1>3, <2>2, <2>3 DEF RunStep, Report, Fails
<1>4. CASE Restart
  BY <1>4 DEF Restart
<1>5. CASE UNCHANGED vars
  BY <1>5 DEF vars, runVars, recVars
<1>6. QED
  BY <1>1, <1>2, <1>3, <1>4, <1>5 DEF Next

\* What the pod template sets is in every template that a run tests, whatever
\* the check fills in, and however many checks share what it merges.
THEOREM TemplatesKept == Spec => []TemplateIsKept
<1>1. Init => TemplateIsKept
  BY DEF Init, TemplateIsKept
<1>2. TInv /\ TemplateIsKept /\ [Next]_vars => TemplateIsKept'
  <2> SUFFICES ASSUME TInv, TemplateIsKept, [Next]_vars PROVE TemplateIsKept'
    OBVIOUS
  <2>1. template' = template /\ template \in Template
    BY GivenIsFixed DEF specVars, TInv, TypeOK
  <2>2. \A t : KeepsTemplate(t) => KeepsTemplate(t)'
    BY <2>1 DEF KeepsTemplate
  <2>3. \A c \in Contexts : KeepsTemplate(ApplyTo(template, c)) /\ KeepsTemplate(template)
    BY <2>1, TemplatesAreKept
  <2>4. ASSUME NEW c \in Check, applied'[c] # Nil
        PROVE  KeepsTemplate(applied'[c])
    BY <2>3, <2>4, TestedTemplates DEF TemplateIsKept
  <2>5. ASSUME final' # Nil
        PROVE  KeepsTemplate(final')
    BY <2>3, <2>5, TestedTemplates, NoContextsType DEF TemplateIsKept
  <2>6. QED
    BY <2>1, <2>4, <2>5 DEF TemplateIsKept, KeepsTemplate
<1>3. QED
  BY <1>1, <1>2, TypesInvariant, PTL DEF Spec

-----------------------------------------------------------------------------
(* Isolation.                                                              *)

CopyIsFresh ==
  Isolated => /\ spec = Nil => copy = Nil /\ sharing = {}
              /\ spec # Nil /\ pc = "checks" /\ left # {} => copy = spec /\ sharing = {}

IsolationInv == ChecksAreIsolated /\ CopyIsFresh

LEMMA SubmitIsolates ==
  ASSUME TInv, IsolationInv, Isolated, NEW c \in Check, SubmitCheck(c)
  PROVE  /\ \A d \in Check : sc'[d] \in {sc[d], Filled(d, Given)}
         /\ spec = Nil => copy' = Nil /\ sharing' = {}
         /\ spec # Nil => left' = {}
<1>1. sc \in [Check -> Contexts \cup {Nil}] /\ pc = "checks" /\ left # {}
  BY DEF TInv, TypeOK, SubmitCheck
<1>2. CASE spec = Nil
  <2>1. SubmitAlone(c) /\ sharing = {} /\ copy = Nil
    BY <1>2 DEF IsolationInv, CopyIsFresh, SubmitCheck, SubmitShared
  <2>2. QED
    BY <1>1, <1>2, <2>1 DEF SubmitAlone, Given
<1>3. CASE spec # Nil
  <2>1. SubmitShared(c) /\ sharing = {} /\ copy = spec
    BY <1>1, <1>3 DEF IsolationInv, CopyIsFresh, SubmitCheck, SubmitAlone
  <2>2. sc' = [d \in Check |-> IF d \in {c} THEN Filled(c, spec) ELSE sc[d]]
    BY <2>1 DEF SubmitShared
  <2>3. left' = {}
    BY <1>3 DEF Isolated, SubmitCheck, Handled
  <2>4. QED
    BY <1>1, <1>3, <2>2, <2>3 DEF Given
<1>4. QED
  BY <1>2, <1>3

LEMMA ResubmitIsolates ==
  ASSUME TInv, IsolationInv, Isolated, NEW c \in Check, Resubmit(c)
  PROVE  /\ \A d \in Check : sc'[d] = sc[d]
         /\ spec = Nil => copy' = Nil /\ sharing' = {}
         /\ spec # Nil => left' = {}
<1>1. pc = "checks" /\ left # {}
  BY DEF Resubmit
<1>2. sharing = {} /\ (spec = Nil => copy = Nil)
  BY <1>1 DEF IsolationInv, CopyIsFresh
<1>3. sharing' = {} /\ sc' = [d \in Check |-> sc[d]] /\ (spec = Nil => copy' = Nil)
  BY <1>2 DEF Resubmit
<1>4. spec # Nil => left' = {}
  BY DEF Resubmit, Isolated, Handled
<1>5. QED
  BY <1>3, <1>4

\* No other step gives a run other contexts than it has, or makes the copy of
\* the spec anyone's.
LEMMA OthersIsolate ==
  ASSUME TInv, IsolationInv, Isolated, [Next]_vars,
         \A c \in Check : ~SubmitCheck(c) /\ ~Resubmit(c)
  PROVE  /\ \A d \in Check : sc'[d] \in {Nil, sc[d]}
         /\ spec = Nil => copy' = Nil /\ sharing' = {}
         /\ spec # Nil /\ pc' = "checks" /\ left' # {} => copy' = spec /\ sharing' = {}
<1>1. /\ spec = Nil => copy = Nil /\ sharing = {}
      /\ spec # Nil /\ pc = "checks" /\ left # {} => copy = spec /\ sharing = {}
      /\ sc \in [Check -> Contexts \cup {Nil}]
  BY DEF IsolationInv, CopyIsFresh, TInv, TypeOK
<1>2. CASE BeginChecks \/ EndChecks \/ \E c \in Check : Panic(c)
  BY <1>1, <1>2 DEF BeginChecks, EndChecks, Panic, runVars
<1>3. ASSUME NEW c \in Check, SkipCheck(c)
      PROVE  /\ sc' = sc /\ copy' = copy /\ sharing' = sharing
             /\ pc = "checks" /\ left # {}
  BY <1>3 DEF SkipCheck, runVars
<1>4. CASE \/ BeginRecommendation \/ StoreRecommendation \/ FinalRun
           \/ \E c \in Check : MergeCheck(c)
  BY <1>1, <1>4 DEF BeginRecommendation, StoreRecommendation, FinalRun, MergeCheck,
                    loopVars, runVars
<1>5. ASSUME NEW c \in Check, RunStep(c)
      PROVE  /\ \A d \in Check : sc'[d] \in {Nil, sc[d]}
             /\ copy' = copy /\ sharing' \subseteq sharing /\ pc' = pc /\ left' = left
  BY <1>1, <1>5 DEF RunStep, Apply, Report, Fails, Return, loopVars
<1>6. CASE Restart
  BY <1>6 DEF Restart
<1>7. CASE UNCHANGED vars
  BY <1>1, <1>7 DEF vars, loopVars, runVars
<1>8. QED
  BY <1>1, <1>2, <1>3, <1>4, <1>5, <1>6, <1>7 DEF Next, ReconcilerStep

\* Without spec.securityContext, and in sequential mode, the contexts of a run
\* are the given ones and what its own check fills in, from submit to report.
THEOREM Isolation == Spec => []ChecksAreIsolated
<1>1. Init => IsolationInv
  BY DEF Init, IsolationInv, ChecksAreIsolated, CopyIsFresh
<1>2. TInv /\ IsolationInv /\ [Next]_vars => IsolationInv'
  <2> SUFFICES ASSUME TInv, IsolationInv, [Next]_vars, Isolated' PROVE IsolationInv'
    BY DEF IsolationInv, ChecksAreIsolated, CopyIsFresh
  <2>1. spec' = spec /\ Isolated /\ Given' = Given
    BY GivenIsFixed DEF specVars, Isolated, Given
  <2>2. /\ \A d \in Check : sc'[d] \in {Nil, sc[d], Filled(d, Given)}
        /\ spec = Nil => copy' = Nil /\ sharing' = {}
        /\ spec # Nil /\ pc' = "checks" /\ left' # {} => copy' = spec /\ sharing' = {}
    BY <2>1, SubmitIsolates, ResubmitIsolates, OthersIsolate
  <2>3. ChecksAreIsolated'
    <3>1. \A d \in Check : Filled(d, Given)' = Filled(d, Given)
      BY <2>1 DEF Filled
    <3>2. QED
      BY <2>1, <2>2, <3>1 DEF IsolationInv, ChecksAreIsolated
  <2>4. QED
    BY <2>1, <2>2, <2>3 DEF IsolationInv, CopyIsFresh
<1>3. IsolationInv => ChecksAreIsolated
  BY DEF IsolationInv
<1>4. QED
  BY <1>1, <1>2, <1>3, TypesInvariant, PTL DEF Spec

-----------------------------------------------------------------------------
(* The recommendation.                                                     *)

\* What the merges start from, the template's own settings.
OwnPod == OrElse(template.pod, NoContexts.pod)
OwnMain == OrElse(template.container[Main], NoContexts.container)

\* A setting of the recommendation comes from where the merges start or, where
\* that leaves it open, from a report of a successful check.
PodOrigin(f, v) ==
  v \in OwnPod[f] \/ (OwnPod[f] = {} /\ \E c \in Passed : analysed[c].sc.pod # Nil
                                                   /\ v \in analysed[c].sc.pod[f])
MainOrigin(f, v) ==
  \/ v \in OwnMain[f]
  \/ /\ f # "runAsNonRoot" /\ (OwnMain[f] = {} \/ f = "capabilitiesDrop")
     /\ \E c \in Passed : /\ analysed[c].sc.container # Nil
                         /\ v \in analysed[c].sc.container[f]

RecInv ==
  /\ pc \in {"merge", "recommended"} =>
       /\ Extends(rec.pod, OwnPod, PodField)
       /\ Extends(rec.container, OwnMain, ContainerField)
       /\ \A f \in PodField : \A v \in rec.pod[f] : PodOrigin(f, v)
       /\ \A f \in ContainerField : \A v \in rec.container[f] : MainOrigin(f, v)
  /\ pc = "merge" => left \subseteq Passed
  /\ pc \notin {"merge", "recommended"} => rec = Nil
  /\ FinalRunIsRecommended
  /\ final # Nil => pc = "recommended"

LEMMA OwnTypes ==
  ASSUME template \in Template
  PROVE  OwnPod \in PodContext /\ OwnMain \in ContainerContext /\ OwnPod # Nil /\ OwnMain # Nil
<1>1. template.pod \in PodContext \cup {Nil} /\ template.container[Main] \in ContainerContext \cup {Nil}
  BY FieldsOfContexts, SecurityContextsAssumption
<1>2. QED
  BY <1>1, OrElseTypes, NilIsNone DEF OwnPod, OwnMain

\* One merge keeps the origin of every setting.
LEMMA MergeOrigin ==
  ASSUME TInv, RecInv, NEW c \in Check, MergeCheck(c)
  PROVE  /\ Extends(rec'.pod, OwnPod, PodField)
         /\ Extends(rec'.container, OwnMain, ContainerField)
         /\ \A f \in PodField : \A v \in rec'.pod[f] : PodOrigin(f, v)
         /\ \A f \in ContainerField : \A v \in rec'.container[f] : MainOrigin(f, v)
<1> DEFINE p == analysed[c].sc.pod
           k == analysed[c].sc.container
<1>1. /\ rec \in Contexts /\ rec.pod \in PodContext /\ rec.container \in ContainerContext
      /\ rec.pod # Nil /\ rec.container # Nil
  BY FieldsOfContexts DEF MergeCheck, TInv, MergesContexts, TypeOK
<1>2. c \in Passed /\ p \in PodContext \cup {Nil} /\ k \in ContainerContext \cup {Nil}
  BY FieldsOfContexts DEF MergeCheck, RecInv, TInv, TypeOK, Passed
<1>3. rec'.pod = MergePod(rec.pod, p) /\ rec'.container = MergeContainer(rec.container, k)
  BY DEF MergeCheck
<1>4. OwnPod \in PodContext /\ OwnMain \in ContainerContext /\ OwnPod # Nil /\ OwnMain # Nil
  BY OwnTypes DEF TInv, TypeOK
<1>5. /\ Extends(rec.pod, OwnPod, PodField)
      /\ Extends(rec.container, OwnMain, ContainerField)
      /\ \A f \in PodField : \A v \in rec.pod[f] : PodOrigin(f, v)
      /\ \A f \in ContainerField : \A v \in rec.container[f] : MainOrigin(f, v)
  BY DEF RecInv, MergeCheck
<1>6. ASSUME p # Nil
      PROVE  /\ Extends(rec'.pod, OwnPod, PodField)
             /\ \A f \in PodField : \A v \in rec'.pod[f] : PodOrigin(f, v)
  <2>1. \A f \in PodField : rec'.pod[f] = Or(rec.pod[f], p[f])
    BY <1>1, <1>3, <1>6 DEF MergePod
  <2>2. Extends(rec'.pod, OwnPod, PodField)
    <3>1. rec'.pod # Nil
      BY <1>1, <1>2, <1>3, MergePodType
    <3>2. ASSUME NEW f \in PodField, OwnPod[f] # {}
          PROVE  \/ rec'.pod[f] = OwnPod[f]
                 \/ f = "capabilitiesDrop" /\ OwnPod[f] \subseteq rec'.pod[f]
      BY <2>1, <1>4, <1>5, <3>2 DEF Extends, Or
    <3>3. QED
      BY <3>1, <3>2 DEF Extends
  <2>3. ASSUME NEW f \in PodField, NEW v \in rec'.pod[f]
        PROVE  PodOrigin(f, v)
    <3>1. CASE v \in rec.pod[f]
      BY <3>1, <1>5
    <3>2. CASE rec.pod[f] = {} /\ v \in p[f]
      <4>1. OwnPod[f] = {}
        BY <1>4, <1>5, <3>2 DEF Extends
      <4>2. QED
        BY <4>1, <3>2, <1>2, <1>6 DEF PodOrigin
    <3>3. QED
      BY <2>1, <2>3, <3>1, <3>2 DEF Or
  <2>4. QED
    BY <2>2, <2>3
<1>7. ASSUME k # Nil
      PROVE  /\ Extends(rec'.container, OwnMain, ContainerField)
             /\ \A f \in ContainerField : \A v \in rec'.container[f] : MainOrigin(f, v)
  <2>1. \A f \in ContainerField : rec'.container[f] = Merged(rec.container, k, f)
    BY <1>1, <1>3, <1>7 DEF MergeContainer
  <2>2. Extends(rec'.container, OwnMain, ContainerField)
    <3>1. rec'.container # Nil
      BY <1>1, <1>2, <1>3, MergeContainerType
    <3>2. ASSUME NEW f \in ContainerField, OwnMain[f] # {}
          PROVE  \/ rec'.container[f] = OwnMain[f]
                 \/ f = "capabilitiesDrop" /\ OwnMain[f] \subseteq rec'.container[f]
      BY <2>1, <1>4, <1>5, <3>2 DEF Extends, Merged, Or
    <3>3. QED
      BY <3>1, <3>2 DEF Extends
  <2>3. ASSUME NEW f \in ContainerField, NEW v \in rec'.container[f]
        PROVE  MainOrigin(f, v)
    <3>1. CASE v \in rec.container[f]
      BY <3>1, <1>5
    <3>2. CASE /\ rec.container[f] = {} \/ f = "capabilitiesDrop"
               /\ f # "runAsNonRoot" /\ v \in k[f]
      <4>1. OwnMain[f] = {} \/ f = "capabilitiesDrop"
        BY <1>4, <1>5, <3>2 DEF Extends
      <4>2. QED
        BY <4>1, <3>2, <1>2, <1>7 DEF MainOrigin
    <3>3. QED
      BY <2>1, <2>3, <3>1, <3>2 DEF Merged, Or
  <2>4. QED
    BY <2>2, <2>3
<1>8. ASSUME p = Nil
      PROVE  /\ Extends(rec'.pod, OwnPod, PodField)
             /\ \A f \in PodField : \A v \in rec'.pod[f] : PodOrigin(f, v)
  BY <1>1, <1>3, <1>5, <1>8 DEF MergePod
<1>9. ASSUME k = Nil
      PROVE  /\ Extends(rec'.container, OwnMain, ContainerField)
             /\ \A f \in ContainerField : \A v \in rec'.container[f] : MainOrigin(f, v)
  BY <1>1, <1>3, <1>5, <1>9 DEF MergeContainer
<1>10. QED
  BY <1>6, <1>7, <1>8, <1>9

\* The final run merges the recommendation into the template it came from.
LEMMA FinalMerge ==
  ASSUME TInv, RecInv, FinalRun
  PROVE  FinalRunIsRecommended'
<1>1. /\ rec.pod \in PodContext /\ rec.container \in ContainerContext
      /\ rec' = rec /\ template' = template /\ template \in Template
  BY FieldsOfContexts DEF FinalRun, TInv, MergesContexts, TypeOK, specVars
<1>2. /\ OwnPod \in PodContext /\ OwnMain \in ContainerContext /\ OwnPod # Nil /\ OwnMain # Nil
      /\ NoContexts.pod \in PodContext /\ NoContexts.container \in ContainerContext
  BY <1>1, OwnTypes, NoContextsType
<1>3. /\ Extends(rec.pod, OwnPod, PodField)
      /\ Extends(rec.container, OwnMain, ContainerField)
      /\ \A f \in ContainerField : \A v \in rec.container[f] : MainOrigin(f, v)
  BY DEF RecInv, FinalRun
<1>4. rec.container["runAsNonRoot"] = OwnMain["runAsNonRoot"]
  BY <1>2, <1>3 DEF MainOrigin, Extends, ContainerField
<1> DEFINE g == GetRecommended(rec)
<1>5. /\ g \in Contexts /\ g.pod \in PodContext /\ g.container \in ContainerContext
      /\ \A f \in PodField \ {"seccompProfile"} : g.pod[f] = rec.pod[f]
      /\ \A f \in ContainerField \ {"seccompProfile"} : g.container[f] = rec.container[f]
  BY <1>1 DEF GetRecommended, Contexts, PodContext, ContainerContext
<1>6. g.pod # Nil /\ g.container # Nil
  BY <1>5, NilIsNone
<1>7. CASE final' = ApplyTo(template, g)
  <2>1. final'.pod = MergePod(template.pod, g.pod)
    BY <1>7 DEF ApplyTo
  <2>2. final'.container[Main] = MergeContainer(template.container[Main], g.container)
    BY <1>7, SecurityContextsAssumption DEF ApplyTo
  <2>3. ASSUME NEW f \in PodField \ {"seccompProfile"}
        PROVE  OrElse(final'.pod, NoContexts.pod)[f] = rec.pod[f]
    <3>1. CASE template.pod = Nil
      BY <2>1, <3>1, <1>5, <1>6 DEF MergePod, OrElse
    <3>2. CASE template.pod # Nil
      <4>1. OwnPod = template.pod /\ final'.pod[f] = Or(OwnPod[f], rec.pod[f])
        BY <2>1, <3>2, <1>5, <1>6 DEF MergePod, OwnPod, OrElse
      <4>2. final'.pod # Nil
        BY <2>1, <3>2, <1>1, <1>5, FieldsOfContexts, MergePodType
      <4>3. f # "capabilitiesDrop"
        BY DEF PodField
      <4>4. QED
        BY <4>1, <4>2, <4>3, <1>2, <1>3 DEF Extends, Or, OrElse
    <3>3. QED
      BY <3>1, <3>2
  <2>4. ASSUME NEW f \in ContainerField \ {"seccompProfile"}
        PROVE  OrElse(final'.container[Main], NoContexts.container)[f] = rec.container[f]
    <3>1. CASE template.container[Main] = Nil
      BY <2>2, <3>1, <1>5, <1>6 DEF MergeContainer, OrElse
    <3>2. CASE template.container[Main] # Nil
      <4>1. /\ OwnMain = template.container[Main]
            /\ final'.container[Main][f] = Merged(OwnMain, g.container, f)
        BY <2>2, <3>2, <1>6 DEF MergeContainer, OwnMain, OrElse
      <4>2. final'.container[Main] # Nil
        BY <2>2, <3>2, <1>1, <1>5, FieldsOfContexts, MergeContainerType, SecurityContextsAssumption
      <4>3. g.container[f] = rec.container[f]
        BY <1>5
      <4>4. Merged(OwnMain, g.container, f) = rec.container[f]
        <5>1. CASE f = "runAsNonRoot"
          BY <5>1, <1>4 DEF Merged
        <5>2. CASE f = "capabilitiesDrop"
          BY <5>2, <4>3, <1>2, <1>3 DEF Merged, Extends
        <5>3. CASE f \notin {"runAsNonRoot", "capabilitiesDrop"}
          BY <5>3, <4>3, <1>2, <1>3 DEF Merged, Extends, Or
        <5>4. QED
          BY <5>1, <5>2, <5>3
      <4>5. QED
        BY <4>1, <4>2, <4>4 DEF OrElse
    <3>3. QED
      BY <3>1, <3>2
  <2>5. QED
    BY <2>3, <2>4, <1>1 DEF FinalRunIsRecommended
<1>8. CASE final' = template /\ g = NoContexts
  <2>1. /\ \A f \in PodField : NoContexts.pod[f] = {}
        /\ \A f \in ContainerField : NoContexts.container[f] = {}
    BY DEF NoContexts
  <2>2. \A f \in PodField \ {"seccompProfile"} : rec.pod[f] = {} /\ OwnPod[f] = {}
    BY <1>2, <1>3, <1>5, <1>8, <2>1 DEF Extends
  <2>3. \A f \in ContainerField \ {"seccompProfile"} : rec.container[f] = {} /\ OwnMain[f] = {}
    BY <1>2, <1>3, <1>5, <1>8, <2>1 DEF Extends
  <2>4. QED
    BY <2>2, <2>3, <1>1, <1>8 DEF FinalRunIsRecommended, OwnPod, OwnMain
<1>9. QED
  BY <1>7, <1>8 DEF FinalRun

LEMMA RecStep == TInv /\ RecInv /\ [Next]_vars => RecInv'
<1> SUFFICES ASSUME TInv, RecInv, [Next]_vars PROVE RecInv'
  OBVIOUS
<1>1. /\ template' = template /\ OwnPod' = OwnPod /\ OwnMain' = OwnMain
      /\ template \in Template
  BY GivenIsFixed DEF specVars, OwnPod, OwnMain, TInv, TypeOK
<1>2. CASE BeginRecommendation
  <2>1. /\ rec'.pod = OwnPod /\ rec'.container = OwnMain
        /\ left' = Successful' /\ pc' = "merge" /\ final = Nil /\ final' = Nil
    BY <1>2 DEF BeginRecommendation, OwnPod, OwnMain, RecInv
  <2>2. Successful' = Passed'
    BY DEF Successful, Passed
  <2>3. Extends(OwnPod, OwnPod, PodField) /\ Extends(OwnMain, OwnMain, ContainerField)
    BY DEF Extends
  <2>4. /\ \A f \in PodField : \A v \in rec'.pod[f] : PodOrigin(f, v)'
        /\ \A f \in ContainerField : \A v \in rec'.container[f] : MainOrigin(f, v)'
    BY <2>1, <1>1 DEF PodOrigin, MainOrigin
  <2>5. FinalRunIsRecommended'
    BY <2>1 DEF FinalRunIsRecommended
  <2>6. QED
    BY <2>1, <2>2, <2>3, <2>4, <2>5, <1>1 DEF RecInv
<1>3. ASSUME NEW c \in Check, MergeCheck(c)
      PROVE  RecInv'
  <2>1. /\ pc = "merge" /\ pc' = pc /\ left' \subseteq left /\ analysed' = analysed
        /\ final' = final /\ final = Nil
    BY <1>3 DEF MergeCheck, RecInv
  <2>2. /\ Passed' = Passed
        /\ \A f, v : PodOrigin(f, v)' = PodOrigin(f, v) /\ MainOrigin(f, v)' = MainOrigin(f, v)
    BY <2>1, <1>1 DEF Passed, PodOrigin, MainOrigin
  <2>3. FinalRunIsRecommended'
    BY <2>1 DEF FinalRunIsRecommended
  <2>4. QED
    BY <1>1, <1>3, <2>1, <2>2, <2>3, MergeOrigin DEF RecInv
<1>4. CASE FinalRun
  <2>1. /\ pc = "recommended" /\ pc' = pc /\ analysed' = analysed /\ rec' = rec
    BY <1>4 DEF FinalRun, loopVars
  <2>2. \A f, v : PodOrigin(f, v)' = PodOrigin(f, v) /\ MainOrigin(f, v)' = MainOrigin(f, v)
    BY <2>1, <1>1 DEF Passed, PodOrigin, MainOrigin
  <2>3. QED
    BY <1>1, <1>4, <2>1, <2>2, FinalMerge DEF RecInv
<1>5. CASE UNCHANGED <<analysed, rec, final>> /\ pc' \in {pc, "recommended"}
           /\ (pc' = "merge" => pc = "merge" /\ left' \subseteq left)
           /\ (pc' = "recommended" => pc \in {"merge", "recommended"})
  <2>1. /\ Passed' = Passed
        /\ \A f, v : PodOrigin(f, v)' = PodOrigin(f, v) /\ MainOrigin(f, v)' = MainOrigin(f, v)
    BY <1>1, <1>5 DEF Passed, PodOrigin, MainOrigin
  <2>2. FinalRunIsRecommended'
    BY <1>5 DEF RecInv, FinalRunIsRecommended
  <2>3. QED
    BY <1>1, <1>5, <2>1, <2>2 DEF RecInv
<1>6. CASE /\ UNCHANGED final /\ pc \notin {"merge", "recommended"} /\ rec' = rec
           /\ pc' \in {"idle", "checks"}
  BY <1>6 DEF RecInv, FinalRunIsRecommended
<1>7. ASSUME NEW c \in Check, RunStep(c)
      PROVE  RecInv'
  BY <1>5, <1>7 DEF RunStep, Apply, Report, Fails, Return, loopVars, recVars
<1>8. CASE Restart
  <2>1. CASE pc = "recommended"
    BY <1>5, <1>8, <2>1 DEF Restart
  <2>2. CASE pc # "recommended"
    BY <1>8, <2>2 DEF Restart, RecInv, FinalRunIsRecommended
  <2>3. QED
    BY <2>1, <2>2
<1>9. CASE BeginChecks \/ EndChecks \/ StoreRecommendation
           \/ \E c \in Check : SubmitCheck(c) \/ SkipCheck(c) \/ Resubmit(c) \/ Panic(c)
  BY <1>5, <1>6, <1>9 DEF BeginChecks, EndChecks, StoreRecommendation, SubmitCheck, SkipCheck,
                          Resubmit, Panic, recVars
<1>10. CASE UNCHANGED vars
  BY <1>5, <1>10 DEF vars, loopVars, recVars, TInv, TypeOK
<1>11. QED
  BY <1>2, <1>3, <1>4, <1>7, <1>8, <1>9, <1>10 DEF Next, ReconcilerStep

LEMMA RecInvariant == Spec => []RecInv
<1>1. Init => RecInv
  BY DEF Init, RecInv, FinalRunIsRecommended
<1>2. QED
  BY <1>1, RecStep, TypesInvariant, PTL DEF Spec

\* The final run tests what is recommended: every setting that a check tests, as
\* it is in the stored recommendation.
THEOREM FinalRunsTestTheRecommendation == Spec => []FinalRunIsRecommended
<1>1. RecInv => FinalRunIsRecommended
  BY DEF RecInv
<1>2. QED
  BY <1>1, RecInvariant, PTL

-----------------------------------------------------------------------------
(* What is recommended has been tested.                                    *)

\* Where no context is shared, what a run reports is what it applied.
IsolatedReport(c, r) ==
  r # Nil => r.sc = Filled(c, Given) /\ r.applied = ApplyTo(template, Filled(c, Given))

ReportInv ==
  Isolated => \A c \in Check :
    /\ run[c] = "applied" => applied[c] = ApplyTo(template, Filled(c, Given))
    /\ IsolatedReport(c, checkRuns[c])
    /\ IsolatedReport(c, analysed[c])

LEMMA ReportStep == TInv /\ ChecksAreIsolated /\ ReportInv /\ [Next]_vars => ReportInv'
<1> SUFFICES ASSUME TInv, ChecksAreIsolated, ReportInv, [Next]_vars, Isolated' PROVE ReportInv'
  BY DEF ReportInv
<1>1. Isolated /\ Given' = Given /\ template' = template
  BY GivenIsFixed DEF specVars, Isolated, Given
<1>2. \A c \in Check : /\ (ApplyTo(template, Filled(c, Given)))' = ApplyTo(template, Filled(c, Given))
                       /\ Filled(c, Given)' = Filled(c, Given)
  BY <1>1 DEF ApplyTo, Filled
<1>3. \A c \in Check : \A r : IsolatedReport(c, r)' = IsolatedReport(c, r)
  BY <1>2 DEF IsolatedReport
<1>4. \A c \in Check : /\ run[c] = "applied" => applied[c] = ApplyTo(template, Filled(c, Given))
                       /\ IsolatedReport(c, checkRuns[c]) /\ IsolatedReport(c, analysed[c])
                       /\ sc[c] # Nil => sc[c] = Filled(c, Given)
  BY <1>1 DEF ReportInv, ChecksAreIsolated
<1>5. /\ run \in [Check -> {"none", "submitted", "applied"}]
      /\ applied \in [Check -> Template \cup {Nil}]
      /\ checkRuns \in [Check -> CheckRun \cup {Nil}]
  BY DEF TInv, TypeOK
<1>6. ASSUME /\ analysed' \in {analysed, checkRuns} /\ checkRuns' = checkRuns
             /\ \A c \in Check : run'[c] = "applied" => run[c] = "applied" /\ applied'[c] = applied[c]
      PROVE  ReportInv'
  BY <1>2, <1>3, <1>4, <1>6 DEF ReportInv
<1>7. CASE ReconcilerStep
  BY <1>5, <1>6, <1>7 DEF ReconcilerStep, BeginChecks, SubmitCheck, SkipCheck, Resubmit, Panic,
       EndChecks, BeginRecommendation, MergeCheck, StoreRecommendation, FinalRun,
       loopVars, runVars, recVars
<1>8. ASSUME NEW c \in Check, Apply(c)
      PROVE  ReportInv'
  <2>1. sc[c] = Filled(c, Given)
    BY <1>4, <1>8 DEF Apply, TInv, RunsHaveContexts
  <2>2. \A d \in Check : run'[d] = "applied" => applied'[d] = ApplyTo(template, Filled(d, Given))
    BY <1>4, <1>5, <1>8, <2>1 DEF Apply
  <2>3. checkRuns' = checkRuns /\ analysed' = analysed
    BY <1>8 DEF Apply, recVars
  <2>4. QED
    BY <1>2, <1>3, <1>4, <2>2, <2>3 DEF ReportInv
<1>9. ASSUME NEW c \in Check, NEW ok \in BOOLEAN, Report(c, ok)
      PROVE  ReportInv'
  <2>1. sc[c] = Filled(c, Given) /\ applied[c] = ApplyTo(template, Filled(c, Given))
    BY <1>4, <1>9 DEF Report, TInv, RunsHaveContexts
  <2>2. \A d \in Check : IsolatedReport(d, checkRuns'[d])
    BY <1>4, <1>5, <1>9, <2>1 DEF Report, IsolatedReport
  <2>3. \A d \in Check : run'[d] = "applied" => run[d] = "applied" /\ applied'[d] = applied[d]
    BY <1>5, <1>9 DEF Report, Return
  <2>4. analysed' = analysed
    BY <1>9 DEF Report, Return, recVars
  <2>5. QED
    BY <1>2, <1>3, <1>4, <2>2, <2>3, <2>4 DEF ReportInv
<1>10. ASSUME NEW c \in Check, Fails(c)
       PROVE  ReportInv'
  BY <1>5, <1>6, <1>10 DEF Fails, Return, recVars
<1>11. CASE Restart
  BY <1>6, <1>11 DEF Restart
<1>12. CASE UNCHANGED vars
  BY <1>6, <1>12 DEF vars, runVars, recVars
<1>13. QED
  BY <1>7, <1>8, <1>9, <1>10, <1>11, <1>12 DEF Next, RunStep

\* Where no context is shared, a setting that is recommended and not in the
\* pod template ran in a check that was successful.
THEOREM RecommendationsAreTested == Spec => []OnlyTestedIsRecommended
<1>1. Init => ReportInv
  BY DEF Init, ReportInv, IsolatedReport
<1>2. TInv /\ RecInv /\ ReportInv => OnlyTestedIsRecommended
  <2> SUFFICES ASSUME TInv, RecInv, ReportInv, Isolated, rec # Nil PROVE OnlyTestedIsRecommended
    BY DEF OnlyTestedIsRecommended
  <2>1. template \in Template /\ analysed \in [Check -> CheckRun \cup {Nil}]
    BY DEF TInv, TypeOK
  <2>2. /\ \A f \in PodField : \A v \in rec.pod[f] : PodOrigin(f, v)
        /\ \A f \in ContainerField : \A v \in rec.container[f] : MainOrigin(f, v)
    BY DEF RecInv
  <2>3. \A c \in Passed : /\ c \in Check /\ analysed[c] \in CheckRun
                          /\ analysed[c].applied = ApplyTo(template, analysed[c].sc)
    BY <2>1 DEF Passed, ReportInv, IsolatedReport
  <2>4. /\ \A f \in PodField : NoContexts.pod[f] = {}
        /\ \A f \in ContainerField : NoContexts.container[f] = {}
    BY DEF NoContexts
  <2>5. ASSUME NEW f \in PodField, NEW v \in rec.pod[f]
        PROVE  Ran(f, v) \/ (template.pod # Nil /\ v \in template.pod[f])
    <3>1. CASE v \in OwnPod[f]
      BY <2>4, <3>1 DEF OwnPod, OrElse
    <3>2. ASSUME OwnPod[f] = {}, NEW c \in Passed, analysed[c].sc.pod # Nil,
                 v \in analysed[c].sc.pod[f]
          PROVE  Ran(f, v)
      <4>1. analysed[c].applied.pod = MergePod(template.pod, analysed[c].sc.pod)
        <5>1. analysed[c].applied = ApplyTo(template, analysed[c].sc)
          BY <2>3
        <5>2. QED
          BY <5>1 DEF ApplyTo
      <4>2. analysed[c].applied \in Template /\ analysed[c].sc \in Contexts
        BY <2>3, FieldsOfContexts
      <4>3. analysed[c].applied.pod # Nil /\ v \in analysed[c].applied.pod[f]
        <5>1. CASE template.pod = Nil
          BY <3>2, <4>1, <5>1 DEF MergePod
        <5>2. CASE template.pod # Nil
          <6>1. template.pod[f] = {}
            BY <3>2, <5>2 DEF OwnPod, OrElse
          <6>2. analysed[c].applied.pod # Nil
            BY <4>1, <4>2, <5>2, <2>1, FieldsOfContexts, MergePodType
          <6>3. QED
            BY <3>2, <4>1, <5>2, <6>1, <6>2 DEF MergePod, Or
        <5>3. QED
          BY <5>1, <5>2
      <4>4. QED
        BY <4>3 DEF Ran
    <3>3. QED
      BY <2>2, <3>1, <3>2 DEF PodOrigin
  <2>6. ASSUME NEW f \in ContainerField, NEW v \in rec.container[f]
        PROVE  \/ RanInMain(f, v)
               \/ template.container[Main] # Nil /\ v \in template.container[Main][f]
    <3>1. CASE v \in OwnMain[f]
      BY <2>4, <3>1 DEF OwnMain, OrElse
    <3>2. ASSUME f # "runAsNonRoot", OwnMain[f] = {} \/ f = "capabilitiesDrop",
                 NEW c \in Passed, analysed[c].sc.container # Nil,
                 v \in analysed[c].sc.container[f]
          PROVE  RanInMain(f, v)
      <4> DEFINE own == template.container[Main]
                 k == analysed[c].applied.container[Main]
      <4>1. k = MergeContainer(own, analysed[c].sc.container)
        <5>1. analysed[c].applied = ApplyTo(template, analysed[c].sc)
          BY <2>3
        <5>2. QED
          BY <5>1, SecurityContextsAssumption DEF ApplyTo
      <4>2. /\ analysed[c].sc.container \in ContainerContext \cup {Nil}
            /\ own \in ContainerContext \cup {Nil}
        BY <2>1, <2>3, FieldsOfContexts, SecurityContextsAssumption
      <4>3. k # Nil /\ v \in k[f]
        <5>1. CASE own = Nil
          BY <3>2, <4>1, <5>1 DEF MergeContainer
        <5>2. CASE own # Nil
          <6>1. own[f] = {} \/ f = "capabilitiesDrop"
            BY <3>2, <5>2 DEF OwnMain, OrElse
          <6>2. k # Nil
            BY <4>1, <4>2, <5>2, MergeContainerType
          <6>3. k[f] = Merged(own, analysed[c].sc.container, f)
            BY <3>2, <4>1, <5>2 DEF MergeContainer
          <6>4. QED
            BY <3>2, <6>1, <6>2, <6>3 DEF Merged, Or
        <5>3. QED
          BY <5>1, <5>2
      <4>4. QED
        BY <4>3 DEF RanInMain
    <3>3. QED
      BY <2>2, <3>1, <3>2 DEF MainOrigin
  <2>7. QED
    BY <2>5, <2>6 DEF OnlyTestedIsRecommended
<1>3. QED
  BY <1>1, <1>2, ReportStep, Isolation, RecInvariant, TypesInvariant, PTL DEF Spec
=============================================================================
