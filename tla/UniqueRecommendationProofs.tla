--------------------- MODULE UniqueRecommendationProofs ---------------------
(***************************************************************************)
(* The recommendation of SecurityContexts does not depend on the order in  *)
(* which the successful checks are merged, for every pod template, every   *)
(* spec.securityContext without conflicting users and every run mode.      *)
(*                                                                         *)
(* The first of several merged contexts that sets something wins, so the   *)
(* order is irrelevant only if all contexts agree.  The checks fill shared *)
(* contexts one after the other, and each fills in what it finds open,     *)
(* partly from what another check has filled in before: the invariant says *)
(* that nevertheless every setting has one possible value only (AgreeInv). *)
(* Then what has been merged so far is the union of the merged contexts    *)
(* (MergeInv), whichever they are.                                         *)
(***************************************************************************)
EXTENDS SecurityContextsProofs

\* The contexts of the spec: both empty without one.
GivenPod == OrElse(Given.pod, NoContexts.pod)
GivenMain == OrElse(Given.container, NoContexts.container)

GivenUser == Or(GivenPod["runAsUser"], {"1000"})
GivenGroup == Or(GivenPod["runAsGroup"], GivenUser)

\* The only value, besides none, that a check reports of a setting of the pod.
OnlyInPod(f) ==
  Or(GivenPod[f], IF f = "runAsUser" THEN {"1000"}
                  ELSE IF f = "runAsGroup" THEN GivenUser
                  ELSE IF f = "fsGroup" THEN GivenGroup
                  ELSE IF f = "runAsNonRoot" THEN {"true"}
                  ELSE {})

\* The same for the containers.
OnlyInMain(f) ==
  Or(GivenMain[f], IF f = "runAsUser" THEN GivenUser
                   ELSE IF f = "runAsGroup" THEN GivenGroup
                   ELSE IF f = "allowPrivilegeEscalation" THEN {"false"}
                   ELSE IF f = "capabilitiesDrop" THEN {"ALL"}
                   ELSE IF f = "seccompProfile" THEN {}
                   ELSE {"true"})

\* What may still be filled in was not given.
PodAgrees(p) == \A f \in PodField : p[f] = OnlyInPod(f) \/ (p[f] = {} /\ GivenPod[f] = {})
MainAgrees(k) == \A f \in ContainerField : k[f] = OnlyInMain(f) \/ (k[f] = {} /\ GivenMain[f] = {})
Agrees(x) == /\ x.pod # Nil => Given.pod # Nil /\ PodAgrees(x.pod)
             /\ x.container # Nil => Given.container # Nil /\ MainAgrees(x.container)

AgreeInv ==
  /\ pc = "checks" /\ copy = Nil => spec = Nil
  /\ NoUserConflict =>
       /\ copy # Nil => Agrees(copy)
       /\ \A c \in Check : /\ sc[c] # Nil => Agrees(sc[c])
                           /\ checkRuns[c] # Nil => Agrees(checkRuns[c].sc)
                           /\ analysed[c] # Nil => Agrees(analysed[c].sc)

\* The union of what the checks of S report of a setting.
PodOf(c, f) == OrElse(analysed[c].sc.pod, NoContexts.pod)[f]
MainOf(c, f) == OrElse(analysed[c].sc.container, NoContexts.container)[f]
MergedPod(S, f) == Or(OwnPod[f], UNION {PodOf(c, f) : c \in S})
MergedMain(S, f) ==
  LET all == UNION {MainOf(c, f) : c \in S}
  IN IF f = "capabilitiesDrop" THEN OwnMain[f] \cup all ELSE Or(OwnMain[f], all)

MergeInv ==
  /\ pc = "recommended" => left = {}
  /\ NoUserConflict /\ pc \in {"merge", "recommended"} =>
       /\ \A f \in PodField : rec.pod[f] = MergedPod(Passed \ left, f)
       /\ \A f \in ContainerField \ {"runAsNonRoot"} :
            rec.container[f] = MergedMain(Passed \ left, f)

-----------------------------------------------------------------------------
(* Every setting has one value.                                            *)

\* The user that the group check takes from the pod and the one that the user
\* check takes by default are the same for a container.
LEMMA OneUser ==
  ASSUME NoUserConflict, spec \in Contexts \cup {Nil},
         Given.pod # Nil, Given.container # Nil, GivenMain["runAsUser"] = {}
  PROVE  GivenUser = {"1000"}
<1>1. CASE spec = Nil
  <2>1. GivenPod = NoContexts.pod
    BY <1>1, NoContextsType DEF Given, GivenPod, OrElse
  <2>2. GivenPod["runAsUser"] = {}
    BY <2>1 DEF NoContexts, PodField
  <2>3. QED
    BY <2>2 DEF GivenUser, Or
<1>2. CASE spec # Nil
  <2>1. Given = spec /\ GivenPod = spec.pod /\ GivenMain = spec.container
    BY <1>2 DEF Given, GivenPod, GivenMain, OrElse
  <2>2. Or(spec.pod["runAsUser"], {"1000"}) = Or(spec.container["runAsUser"], {"1000"})
    BY <1>2, <2>1 DEF NoUserConflict
  <2>3. QED
    BY <2>1, <2>2 DEF GivenUser, Or
<1>3. QED
  BY <1>1, <1>2

LEMMA GivenAgrees ==
  ASSUME spec \in Contexts \cup {Nil}
  PROVE  Agrees(Given)
<1>1. Given.pod # Nil => GivenPod = Given.pod
  BY DEF GivenPod, OrElse
<1>2. Given.container # Nil => GivenMain = Given.container
  BY DEF GivenMain, OrElse
<1>3. \A f : GivenPod[f] # {} => GivenPod[f] = OnlyInPod(f)
  BY DEF OnlyInPod, Or
<1>4. \A f : GivenMain[f] # {} => GivenMain[f] = OnlyInMain(f)
  BY DEF OnlyInMain, Or
<1>5. QED
  BY <1>1, <1>2, <1>3, <1>4 DEF Agrees, PodAgrees, MainAgrees

\* What a check fills in is the one value of the setting, whatever other checks
\* have filled in before.
LEMMA GroupAgrees ==
  ASSUME NEW d \in Contexts, d.pod # Nil, d.container # Nil, Agrees(d)
  PROVE  Agrees(FilledByGroup(d))
<1> DEFINE user == Or(d.pod["runAsUser"], {"1000"})
           group == Or(d.pod["runAsGroup"], user)
           pod == [d.pod EXCEPT !["runAsUser"] = user, !["runAsGroup"] = group,
                                !["fsGroup"] = Or(@, group)]
           main == [d.container EXCEPT !["runAsUser"] = Or(@, user), !["runAsGroup"] = Or(@, group)]
<1>1. FilledByGroup(d) = [pod |-> pod, container |-> main]
  BY DEF FilledByGroup
<1>2. d.pod \in PodContext /\ d.container \in ContainerContext
  BY FieldsOfContexts
<1>3. PodAgrees(d.pod) /\ MainAgrees(d.container) /\ Given.pod # Nil /\ Given.container # Nil
  BY DEF Agrees
<1>4. user = GivenUser /\ user = OnlyInPod("runAsUser")
  BY <1>3 DEF PodAgrees, PodField, OnlyInPod, GivenUser, Or
<1>5. group = GivenGroup /\ group = OnlyInPod("runAsGroup")
  BY <1>3, <1>4 DEF PodAgrees, PodField, OnlyInPod, GivenGroup, Or
<1>6. Or(d.pod["fsGroup"], group) = OnlyInPod("fsGroup")
  BY <1>3, <1>5 DEF PodAgrees, PodField, OnlyInPod, Or
<1>7. Or(d.container["runAsUser"], user) = OnlyInMain("runAsUser")
  BY <1>3, <1>4 DEF MainAgrees, ContainerField, OnlyInMain, Or
<1>8. Or(d.container["runAsGroup"], group) = OnlyInMain("runAsGroup")
  BY <1>3, <1>5 DEF MainAgrees, ContainerField, OnlyInMain, Or
<1> HIDE DEF user, group
<1>9. \A f \in PodField : pod[f] \in {d.pod[f], OnlyInPod(f)}
  BY <1>2, <1>4, <1>5, <1>6 DEF PodContext, PodField
<1>10. \A f \in ContainerField : main[f] \in {d.container[f], OnlyInMain(f)}
  BY <1>2, <1>7, <1>8 DEF ContainerContext, ContainerField
<1> HIDE DEF pod, main
<1>11. PodAgrees(pod) /\ MainAgrees(main)
  BY <1>3, <1>9, <1>10 DEF PodAgrees, MainAgrees
<1>12. QED
  BY <1>1, <1>3, <1>11 DEF Agrees

LEMMA UserAgrees ==
  ASSUME NEW d \in Contexts, d.pod # Nil, d.container # Nil, Agrees(d),
         NoUserConflict, spec \in Contexts \cup {Nil}
  PROVE  Agrees(FilledByUser(d))
<1> DEFINE pod == [d.pod EXCEPT !["runAsUser"] = Or(@, {"1000"}), !["runAsNonRoot"] = Or(@, {"true"})]
           main == [d.container EXCEPT !["runAsUser"] = Or(@, {"1000"}),
                                       !["runAsNonRoot"] = Or(@, {"true"})]
<1>1. FilledByUser(d) = [pod |-> pod, container |-> main]
  BY DEF FilledByUser
<1>2. d.pod \in PodContext /\ d.container \in ContainerContext
  BY FieldsOfContexts
<1>3. PodAgrees(d.pod) /\ MainAgrees(d.container) /\ Given.pod # Nil /\ Given.container # Nil
  BY DEF Agrees
<1>4. /\ Or(d.pod["runAsUser"], {"1000"}) = OnlyInPod("runAsUser")
      /\ Or(d.pod["runAsNonRoot"], {"true"}) = OnlyInPod("runAsNonRoot")
  BY <1>3 DEF PodAgrees, PodField, OnlyInPod, Or
<1>5. Or(d.container["runAsUser"], {"1000"}) = OnlyInMain("runAsUser")
  BY <1>3, OneUser DEF MainAgrees, ContainerField, OnlyInMain, Or
<1>6. Or(d.container["runAsNonRoot"], {"true"}) = OnlyInMain("runAsNonRoot")
  BY <1>3 DEF MainAgrees, ContainerField, OnlyInMain, Or
<1>7. \A f \in PodField : pod[f] \in {d.pod[f], OnlyInPod(f)}
  BY <1>2, <1>4 DEF PodContext, PodField
<1>8. \A f \in ContainerField : main[f] \in {d.container[f], OnlyInMain(f)}
  BY <1>2, <1>5, <1>6 DEF ContainerContext, ContainerField
<1> HIDE DEF pod, main
<1>9. PodAgrees(pod) /\ MainAgrees(main)
  BY <1>3, <1>7, <1>8 DEF PodAgrees, MainAgrees
<1>10. QED
  BY <1>1, <1>3, <1>9 DEF Agrees

LEMMA FieldAgrees ==
  ASSUME NEW d \in Contexts, d.container # Nil, Agrees(d), NEW f \in ContainerField, NEW v,
         GivenMain[f] = {} => OnlyInMain(f) = {v}
  PROVE  Agrees(FilledField(d, f, v))
<1> DEFINE main == [d.container EXCEPT ![f] = Or(@, {v})]
<1>1. FilledField(d, f, v) = [d EXCEPT !.container = main] /\ d.container \in ContainerContext
  BY FieldsOfContexts DEF FilledField
<1>2. MainAgrees(d.container) /\ Given.container # Nil
  BY DEF Agrees
<1>3. Or(d.container[f], {v}) = OnlyInMain(f)
  BY <1>2 DEF MainAgrees, OnlyInMain, Or
<1>4. \A g \in ContainerField : main[g] \in {d.container[g], OnlyInMain(g)}
  BY <1>1, <1>3 DEF ContainerContext
<1> HIDE DEF main
<1>5. MainAgrees(main)
  BY <1>2, <1>4 DEF MainAgrees
<1>6. FilledField(d, f, v).pod = d.pod /\ FilledField(d, f, v).container = main
  BY <1>1 DEF Contexts
<1>7. QED
  BY <1>2, <1>5, <1>6 DEF Agrees

LEMMA FilledAgrees ==
  ASSUME NEW c \in Check, NEW d \in Contexts, Dereferences(c, d), Agrees(d),
         NoUserConflict, spec \in Contexts \cup {Nil}
  PROVE  Agrees(Filled(c, d))
<1>1. d.container # Nil /\ (c \in {"group", "user"} => d.pod # Nil)
  BY DEF Dereferences
<1>2. /\ "readOnlyRootFilesystem" \in ContainerField
      /\ "allowPrivilegeEscalation" \in ContainerField /\ "capabilitiesDrop" \in ContainerField
  BY DEF ContainerField
<1>3. /\ GivenMain["readOnlyRootFilesystem"] = {} => OnlyInMain("readOnlyRootFilesystem") = {"true"}
      /\ GivenMain["allowPrivilegeEscalation"] = {}
           => OnlyInMain("allowPrivilegeEscalation") = {"false"}
      /\ GivenMain["capabilitiesDrop"] = {} => OnlyInMain("capabilitiesDrop") = {"ALL"}
  BY DEF OnlyInMain, Or
<1>4. CASE c = "group"
  BY <1>1, <1>4, GroupAgrees DEF Filled
<1>5. CASE c = "user"
  BY <1>1, <1>5, UserAgrees DEF Filled
<1>6. CASE c = "readOnlyRootFilesystem"
  BY <1>1, <1>2, <1>3, <1>6, FieldAgrees DEF Filled
<1>7. CASE c = "allowPrivilegeEscalation"
  BY <1>1, <1>2, <1>3, <1>7, FieldAgrees DEF Filled
<1>8. CASE c = "dropAllCapabilities"
  BY <1>1, <1>2, <1>3, <1>8, FieldAgrees DEF Filled
<1>9. QED
  BY <1>4, <1>5, <1>6, <1>7, <1>8 DEF Check

\* The given contexts do not change, so neither do the values of the settings.
LEMMA ValuesAreFixed ==
  ASSUME [Next]_vars
  PROVE  /\ spec' = spec /\ template' = template
         /\ NoUserConflict' = NoUserConflict
         /\ OwnPod' = OwnPod /\ OwnMain' = OwnMain
         /\ \A x : Agrees(x)' = Agrees(x)
<1>1. spec' = spec /\ template' = template
  BY GivenIsFixed DEF specVars
<1>2. GivenPod' = GivenPod /\ GivenMain' = GivenMain /\ Given' = Given
  BY <1>1 DEF Given, GivenPod, GivenMain
<1>3. GivenUser' = GivenUser /\ GivenGroup' = GivenGroup
  BY <1>2 DEF GivenUser, GivenGroup
<1>4. \A f : OnlyInPod(f)' = OnlyInPod(f) /\ OnlyInMain(f)' = OnlyInMain(f)
  BY <1>2, <1>3 DEF OnlyInPod, OnlyInMain
<1>5. \A p : PodAgrees(p)' = PodAgrees(p) /\ MainAgrees(p)' = MainAgrees(p)
  BY <1>2, <1>4 DEF PodAgrees, MainAgrees
<1>6. \A x : Agrees(x)' = Agrees(x)
  BY <1>2, <1>5 DEF Agrees
<1>7. QED
  BY <1>1, <1>6 DEF NoUserConflict, OwnPod, OwnMain

\* A submit fills the shared copy, or contexts of its own without a spec.
LEMMA SubmitAgrees ==
  ASSUME TInv, AgreeInv, NoUserConflict, NEW c \in Check, SubmitCheck(c)
  PROVE  /\ copy' # Nil => Agrees(copy')
         /\ \A d \in Check : sc'[d] # Nil => Agrees(sc'[d])
<1>1. /\ sc \in [Check -> Contexts \cup {Nil}] /\ copy \in Contexts \cup {Nil}
      /\ spec \in Contexts \cup {Nil}
  BY DEF TInv, TypeOK
<1>2. /\ copy # Nil => Agrees(copy)
      /\ \A d \in Check : sc[d] # Nil => Agrees(sc[d])
      /\ pc = "checks" /\ copy = Nil => spec = Nil
  BY DEF AgreeInv
<1>3. CASE SubmitAlone(c)
  <2>1. copy = Nil /\ copy' = copy /\ sc' = [sc EXCEPT ![c] = Filled(c, NoContexts)]
    BY <1>3 DEF SubmitAlone
  <2>2. Given = NoContexts
    BY <1>2, <2>1 DEF SubmitCheck, Given
  <2>3. Dereferences(c, NoContexts)
    BY NoContextsType DEF Dereferences
  <2>4. Agrees(Filled(c, NoContexts))
    BY <1>1, <2>2, <2>3, GivenAgrees, FilledAgrees, NoContextsType
  <2>5. QED
    BY <1>1, <1>2, <2>1, <2>4
<1>4. CASE SubmitShared(c)
  <2>1. Agrees(copy')
    BY <1>1, <1>2, <1>4, FilledAgrees DEF SubmitShared
  <2>2. sc' = [d \in Check |-> IF d \in sharing' THEN copy' ELSE sc[d]]
    BY <1>4 DEF SubmitShared
  <2>3. QED
    BY <1>2, <2>1, <2>2
<1>5. QED
  BY <1>3, <1>4 DEF SubmitCheck

\* A submit that is dropped fills the copy all the same, or the spec again.
LEMMA ResubmitAgrees ==
  ASSUME TInv, AgreeInv, NoUserConflict, NEW c \in Check, Resubmit(c)
  PROVE  /\ copy' # Nil => Agrees(copy')
         /\ \A d \in Check : sc'[d] # Nil => Agrees(sc'[d])
<1>1. /\ sc \in [Check -> Contexts \cup {Nil}] /\ copy \in Contexts \cup {Nil}
      /\ spec \in Contexts \cup {Nil}
  BY DEF TInv, TypeOK
<1>2. /\ copy # Nil => Agrees(copy)
      /\ \A d \in Check : sc[d] # Nil => Agrees(sc[d])
  BY DEF AgreeInv
<1>3. PICK fetched \in BOOLEAN :
        LET fresh == IF fetched THEN spec ELSE copy
        IN /\ fresh # Nil => Dereferences(c, fresh)
           /\ copy' = IF fresh = Nil THEN Nil ELSE Filled(c, fresh)
           /\ sharing' = IF fetched THEN {} ELSE sharing
           /\ sc' = [d \in Check |-> IF d \in sharing' THEN copy' ELSE sc[d]]
  BY DEF Resubmit
<1> DEFINE fresh == IF fetched THEN spec ELSE copy
<1>4. fresh # Nil => fresh \in Contexts /\ Agrees(fresh) /\ Dereferences(c, fresh)
  BY <1>1, <1>2, <1>3, GivenAgrees DEF Given
<1>5. copy' # Nil => Agrees(copy')
  <2>1. fresh # Nil => copy' = Filled(c, fresh) /\ Agrees(Filled(c, fresh))
    BY <1>1, <1>3, <1>4, FilledAgrees
  <2>2. fresh = Nil => copy' = Nil
    BY <1>3
  <2>3. QED
    BY <2>1, <2>2
<1>6. \A d \in Check : sc'[d] \in {sc[d], copy'}
  BY <1>3
<1>7. QED
  BY <1>2, <1>5, <1>6

\* The copy is there whenever the spec is.
LEMMA CopyStep ==
  ASSUME TInv, AgreeInv, [Next]_vars, pc' = "checks", copy' = Nil
  PROVE  spec' = Nil
<1>1. spec' = spec /\ (pc = "checks" /\ copy = Nil => spec = Nil)
  BY ValuesAreFixed DEF AgreeInv
<1>2. spec \in Contexts \cup {Nil} /\ copy \in Contexts \cup {Nil}
  BY DEF TInv, TypeOK
<1>3. CASE BeginChecks
  BY <1>1, <1>3 DEF BeginChecks
<1>4. ASSUME NEW c \in Check, SubmitCheck(c)
      PROVE  pc = "checks" /\ copy = Nil
  BY <1>2, <1>4, FilledType DEF SubmitCheck, SubmitAlone, SubmitShared
<1>5. ASSUME NEW c \in Check, Resubmit(c)
      PROVE  spec = Nil
  <2>1. PICK fresh \in {spec, copy} : /\ fresh # Nil => Dereferences(c, fresh)
                                      /\ copy' = IF fresh = Nil THEN Nil ELSE Filled(c, fresh)
    BY <1>5 DEF Resubmit
  <2>2. fresh = Nil
    BY <1>2, <2>1, FilledType
  <2>3. QED
    BY <1>1, <1>5, <2>2 DEF Resubmit
<1>6. CASE EndChecks \/ BeginRecommendation \/ StoreRecommendation
           \/ \E c \in Check : Panic(c) \/ MergeCheck(c)
  BY <1>6 DEF EndChecks, BeginRecommendation, StoreRecommendation, Panic, MergeCheck
<1>7. CASE FinalRun \/ UNCHANGED vars \/ \E c \in Check : SkipCheck(c) \/ RunStep(c)
  BY <1>1, <1>7 DEF FinalRun, SkipCheck, RunStep, Apply, Report, Fails, Return, vars, loopVars
<1>8. CASE Restart
  BY <1>8 DEF Restart
<1>9. QED
  BY <1>1, <1>3, <1>4, <1>5, <1>6, <1>7, <1>8 DEF Next, ReconcilerStep

LEMMA AgreeStep == TInv /\ AgreeInv /\ [Next]_vars => AgreeInv'
<1> SUFFICES ASSUME TInv, AgreeInv, [Next]_vars, NoUserConflict' PROVE
             /\ copy' # Nil => Agrees(copy')
             /\ \A c \in Check : /\ sc'[c] # Nil => Agrees(sc'[c])
                                 /\ checkRuns'[c] # Nil => Agrees(checkRuns'[c].sc)
                                 /\ analysed'[c] # Nil => Agrees(analysed'[c].sc)
  BY CopyStep, ValuesAreFixed DEF AgreeInv
<1>1. NoUserConflict /\ spec \in Contexts \cup {Nil}
  BY ValuesAreFixed DEF TInv, TypeOK
<1>2. /\ copy # Nil => Agrees(copy)
      /\ \A c \in Check : /\ sc[c] # Nil => Agrees(sc[c])
                          /\ checkRuns[c] # Nil => Agrees(checkRuns[c].sc)
                          /\ analysed[c] # Nil => Agrees(analysed[c].sc)
  BY <1>1 DEF AgreeInv
<1>3. sc \in [Check -> Contexts \cup {Nil}] /\ checkRuns \in [Check -> CheckRun \cup {Nil}]
  BY DEF TInv, TypeOK
<1>4. CASE BeginChecks
  <2>1. spec # Nil => Agrees(spec)
    BY <1>1, GivenAgrees DEF Given
  <2>2. QED
    BY <1>2, <1>4, <2>1 DEF BeginChecks, runVars, recVars
<1>5. ASSUME NEW c \in Check, SubmitCheck(c)
      PROVE  /\ copy' # Nil => Agrees(copy')
             /\ \A d \in Check : sc'[d] # Nil => Agrees(sc'[d])
             /\ checkRuns' = checkRuns /\ analysed' = analysed
  BY <1>1, <1>5, SubmitAgrees DEF SubmitCheck, recVars
<1>6. ASSUME NEW c \in Check, Resubmit(c)
      PROVE  /\ copy' # Nil => Agrees(copy')
             /\ \A d \in Check : sc'[d] # Nil => Agrees(sc'[d])
             /\ checkRuns' = checkRuns /\ analysed' = analysed
  BY <1>1, <1>6, ResubmitAgrees DEF Resubmit, recVars
<1>7. CASE EndChecks \/ BeginRecommendation \/ StoreRecommendation \/ FinalRun
           \/ \E c \in Check : SkipCheck(c) \/ Panic(c) \/ MergeCheck(c)
  BY <1>2, <1>7 DEF EndChecks, BeginRecommendation, StoreRecommendation, FinalRun, SkipCheck,
                    Panic, MergeCheck, loopVars, runVars, recVars
<1>8. ASSUME NEW c \in Check, Apply(c) \/ Fails(c)
      PROVE  /\ copy' = copy /\ checkRuns' = checkRuns /\ analysed' = analysed
             /\ \A d \in Check : sc'[d] \in {Nil, sc[d]}
  BY <1>3, <1>8 DEF Apply, Fails, Return, loopVars, recVars
<1>9. ASSUME NEW c \in Check, NEW ok \in BOOLEAN, Report(c, ok)
      PROVE  /\ copy' = copy /\ analysed' = analysed
             /\ \A d \in Check : sc'[d] \in {Nil, sc[d]}
             /\ \A d \in Check : checkRuns'[d] # Nil => Agrees(checkRuns'[d].sc)
  <2>1. sc[c] # Nil
    BY <1>9 DEF Report, TInv, RunsHaveContexts
  <2>2. checkRuns'[c].sc = sc[c] /\ \A d \in Check \ {c} : checkRuns'[d] = checkRuns[d]
    BY <1>3, <1>9 DEF Report
  <2>3. QED
    BY <1>2, <1>3, <1>9, <2>1, <2>2 DEF Report, Return, recVars
<1>10. CASE Restart
  BY <1>2, <1>10 DEF Restart
<1>11. CASE UNCHANGED vars
  BY <1>2, <1>11 DEF vars, loopVars, runVars, recVars
<1>12. QED
  BY <1>2, <1>4, <1>5, <1>6, <1>7, <1>8, <1>9, <1>10, <1>11 DEF Next, ReconcilerStep, RunStep

LEMMA AgreeInvariant == Spec => []AgreeInv
<1>1. Init => AgreeInv
  BY DEF Init, AgreeInv
<1>2. QED
  BY <1>1, AgreeStep, TypesInvariant, PTL DEF Spec

-----------------------------------------------------------------------------
(* The merge.                                                              *)

\* Contexts that agree on a setting may be merged in any order.
LEMMA UnionOfAgreed ==
  ASSUME NEW SS, NEW T, \A X \in SS : X \in {{}, T}
  PROVE  UNION SS \in {{}, T}
<1>1. CASE T \in SS
  <2>1. UNION SS = T
    BY <1>1
  <2>2. QED
    BY <2>1
<1>2. CASE T \notin SS
  <2>1. UNION SS = {}
    BY <1>2
  <2>2. QED
    BY <2>1
<1>3. QED
  BY <1>1, <1>2

LEMMA OrOfUnion ==
  ASSUME NEW a, NEW T, NEW U \in {{}, T}, NEW x \in {{}, T}
  PROVE  Or(Or(a, U), x) = Or(a, U \cup x)
<1>1. CASE U = {}
  <2>1. U \cup x = x
    BY <1>1
  <2>2. QED
    BY <1>1, <2>1 DEF Or
<1>2. CASE U = T /\ U # {}
  <2>1. U \cup x = U
    BY <1>2
  <2>2. QED
    BY <1>2, <2>1 DEF Or
<1>3. QED
  BY <1>1, <1>2

LEMMA ReportsAgree ==
  ASSUME TInv, AgreeInv, NoUserConflict, NEW c \in Passed
  PROVE  /\ \A f \in PodField : PodOf(c, f) \in {{}, OnlyInPod(f)}
         /\ \A f \in ContainerField : MainOf(c, f) \in {{}, OnlyInMain(f)}
<1>1. Agrees(analysed[c].sc)
  BY DEF AgreeInv, Passed
<1>2. /\ \A f \in PodField : NoContexts.pod[f] = {}
      /\ \A f \in ContainerField : NoContexts.container[f] = {}
  BY DEF NoContexts
<1>3. QED
  BY <1>1, <1>2 DEF Agrees, PodAgrees, MainAgrees, PodOf, MainOf, OrElse

LEMMA MergeAdds ==
  ASSUME TInv, NEW c \in Check, MergeCheck(c)
  PROVE  /\ \A f \in PodField : rec'.pod[f] = Or(rec.pod[f], PodOf(c, f))
         /\ \A f \in ContainerField \ {"runAsNonRoot"} :
              rec'.container[f] = IF f = "capabilitiesDrop" THEN rec.container[f] \cup MainOf(c, f)
                                  ELSE Or(rec.container[f], MainOf(c, f))
<1>1. /\ rec'.pod = MergePod(rec.pod, analysed[c].sc.pod)
      /\ rec'.container = MergeContainer(rec.container, analysed[c].sc.container)
  BY DEF MergeCheck
<1>2. rec.pod # Nil /\ rec.container # Nil
  BY DEF MergeCheck, TInv, MergesContexts
<1>3. /\ \A f \in PodField : NoContexts.pod[f] = {}
      /\ \A f \in ContainerField : NoContexts.container[f] = {}
  BY DEF NoContexts
<1>4. ASSUME NEW f \in PodField
      PROVE  rec'.pod[f] = Or(rec.pod[f], PodOf(c, f))
  <2>1. CASE analysed[c].sc.pod = Nil
    BY <1>1, <1>2, <1>3, <2>1 DEF MergePod, PodOf, OrElse, Or
  <2>2. CASE analysed[c].sc.pod # Nil
    BY <1>1, <1>2, <2>2 DEF MergePod, PodOf, OrElse
  <2>3. QED
    BY <2>1, <2>2
<1>5. ASSUME NEW f \in ContainerField, f # "runAsNonRoot"
      PROVE  rec'.container[f] = IF f = "capabilitiesDrop" THEN rec.container[f] \cup MainOf(c, f)
                                 ELSE Or(rec.container[f], MainOf(c, f))
  <2>1. CASE analysed[c].sc.container = Nil
    <3>1. rec'.container = rec.container /\ MainOf(c, f) = {}
      BY <1>1, <1>2, <1>3, <2>1 DEF MergeContainer, MainOf, OrElse
    <3>2. QED
      BY <3>1 DEF Or
  <2>2. CASE analysed[c].sc.container # Nil
    BY <1>1, <1>2, <1>5, <2>2 DEF MergeContainer, Merged, MainOf, OrElse
  <2>3. QED
    BY <2>1, <2>2
<1>6. QED
  BY <1>4, <1>5

\* The next check adds its settings to the union of the others'.
LEMMA MergeCheckStep ==
  ASSUME TInv, AgreeInv, RecInv, MergeInv, [Next]_vars, NEW c \in Check, MergeCheck(c)
  PROVE  MergeInv'
<1> SUFFICES ASSUME NoUserConflict'
             PROVE  /\ \A f \in PodField : rec'.pod[f] = MergedPod(Passed \ left, f)'
                    /\ \A f \in ContainerField \ {"runAsNonRoot"} :
                         rec'.container[f] = MergedMain(Passed \ left, f)'
  BY DEF MergeInv, MergeCheck
<1> DEFINE S == Passed \ left
<1>1. /\ pc = "merge" /\ c \in left /\ left' = left \ {c} /\ analysed' = analysed
      /\ OwnPod' = OwnPod /\ OwnMain' = OwnMain /\ NoUserConflict
  BY ValuesAreFixed DEF MergeCheck
<1>2. c \in Passed /\ Passed' = Passed
  BY <1>1 DEF RecInv, Passed
<1>3. (Passed \ left)' = S \cup {c}
  BY <1>1, <1>2
<1>4. \A d, f : PodOf(d, f)' = PodOf(d, f) /\ MainOf(d, f)' = MainOf(d, f)
  BY <1>1 DEF PodOf, MainOf
<1>5. ASSUME NEW f \in PodField
      PROVE  rec'.pod[f] = MergedPod(Passed \ left, f)'
  <2> DEFINE U == UNION {PodOf(d, f) : d \in S}
  <2>1. rec.pod[f] = Or(OwnPod[f], U)
    BY <1>1 DEF MergeInv, MergedPod
  <2>2. U \in {{}, OnlyInPod(f)}
    <3>1. \A X \in {PodOf(d, f) : d \in S} : X \in {{}, OnlyInPod(f)}
      BY <1>1, ReportsAgree
    <3>2. QED
      BY <3>1, UnionOfAgreed
  <2>3. PodOf(c, f) \in {{}, OnlyInPod(f)}
    BY <1>1, <1>2, ReportsAgree
  <2>4. UNION {PodOf(d, f) : d \in S \cup {c}} = U \cup PodOf(c, f)
    OBVIOUS
  <2>5. MergedPod(Passed \ left, f)' = Or(OwnPod[f], U \cup PodOf(c, f))
    BY <1>1, <1>3, <1>4, <2>4 DEF MergedPod
  <2>6. rec'.pod[f] = Or(rec.pod[f], PodOf(c, f))
    BY MergeAdds
  <2> HIDE DEF U
  <2>7. QED
    BY <2>1, <2>2, <2>3, <2>5, <2>6, OrOfUnion
<1>6. ASSUME NEW f \in ContainerField, f # "runAsNonRoot"
      PROVE  rec'.container[f] = MergedMain(Passed \ left, f)'
  <2> DEFINE U == UNION {MainOf(d, f) : d \in S}
  <2>1. rec.container[f] = IF f = "capabilitiesDrop" THEN OwnMain[f] \cup U ELSE Or(OwnMain[f], U)
    BY <1>1, <1>6 DEF MergeInv, MergedMain
  <2>2. U \in {{}, OnlyInMain(f)}
    <3>1. \A X \in {MainOf(d, f) : d \in S} : X \in {{}, OnlyInMain(f)}
      BY <1>1, ReportsAgree
    <3>2. QED
      BY <3>1, UnionOfAgreed
  <2>3. MainOf(c, f) \in {{}, OnlyInMain(f)}
    BY <1>1, <1>2, ReportsAgree
  <2>4. UNION {MainOf(d, f) : d \in S \cup {c}} = U \cup MainOf(c, f)
    OBVIOUS
  <2>5. MergedMain(Passed \ left, f)'
          = IF f = "capabilitiesDrop" THEN OwnMain[f] \cup (U \cup MainOf(c, f))
            ELSE Or(OwnMain[f], U \cup MainOf(c, f))
    BY <1>1, <1>3, <1>4, <2>4 DEF MergedMain
  <2>6. rec'.container[f] = IF f = "capabilitiesDrop" THEN rec.container[f] \cup MainOf(c, f)
                            ELSE Or(rec.container[f], MainOf(c, f))
    BY <1>6, MergeAdds
  <2> HIDE DEF U
  <2>7. CASE f = "capabilitiesDrop"
    BY <2>1, <2>5, <2>6, <2>7
  <2>8. CASE f # "capabilitiesDrop"
    BY <2>1, <2>2, <2>3, <2>5, <2>6, <2>8, OrOfUnion
  <2>9. QED
    BY <2>7, <2>8
<1>7. QED
  BY <1>5, <1>6

LEMMA MergeStep == TInv /\ AgreeInv /\ RecInv /\ MergeInv /\ [Next]_vars => MergeInv'
<1> SUFFICES ASSUME TInv, AgreeInv, RecInv, MergeInv, [Next]_vars PROVE MergeInv'
  OBVIOUS
<1>1. OwnPod' = OwnPod /\ OwnMain' = OwnMain /\ NoUserConflict' = NoUserConflict
  BY ValuesAreFixed
<1>2. CASE BeginRecommendation
  <2>1. /\ rec'.pod = OwnPod /\ rec'.container = OwnMain /\ pc' = "merge"
        /\ left' = Successful'
    BY <1>2 DEF BeginRecommendation, OwnPod, OwnMain
  <2>2. (Passed \ left)' = {}
    BY <2>1 DEF Successful, Passed
  <2>3. /\ \A f : MergedPod(Passed \ left, f)' = Or(OwnPod[f], {})
        /\ \A f : MergedMain(Passed \ left, f)'
                    = IF f = "capabilitiesDrop" THEN OwnMain[f] \cup {} ELSE Or(OwnMain[f], {})
    BY <1>1, <2>2 DEF MergedPod, MergedMain
  <2>4. QED
    BY <2>1, <2>3 DEF MergeInv, Or
<1>3. ASSUME NEW c \in Check, MergeCheck(c)
      PROVE  MergeInv'
  BY <1>3, MergeCheckStep
<1>4. CASE /\ analysed' = analysed /\ rec' = rec /\ pc' \in {pc, "recommended"}
           /\ (pc' = "merge" => left' = left)
           /\ (pc' = "recommended" => left' = {} /\ (pc = "recommended" \/ (pc = "merge" /\ left = {})))
  <2>1. Passed' = Passed /\ \A d, f : PodOf(d, f)' = PodOf(d, f) /\ MainOf(d, f)' = MainOf(d, f)
    BY <1>4 DEF Passed, PodOf, MainOf
  <2>2. pc' \in {"merge", "recommended"} /\ NoUserConflict =>
          pc \in {"merge", "recommended"} /\ left' = left
    BY <1>4 DEF MergeInv
  <2>3. pc' \in {"merge", "recommended"} /\ NoUserConflict =>
          \A f : /\ MergedPod(Passed \ left, f)' = MergedPod(Passed \ left, f)
                 /\ MergedMain(Passed \ left, f)' = MergedMain(Passed \ left, f)
    BY <1>1, <2>1, <2>2 DEF MergedPod, MergedMain
  <2>4. QED
    BY <1>1, <1>4, <2>2, <2>3 DEF MergeInv
<1>5. CASE pc' \in {"idle", "checks"}
  BY <1>5 DEF MergeInv
<1>6. CASE StoreRecommendation \/ FinalRun \/ UNCHANGED vars \/ \E c \in Check : RunStep(c)
  <2>1. /\ analysed' = analysed /\ rec' = rec /\ left' = left
        /\ pc' = pc \/ (pc = "merge" /\ left = {} /\ pc' = "recommended")
    BY <1>6 DEF StoreRecommendation, FinalRun, RunStep, Apply, Report, Fails, Return,
                vars, loopVars, recVars
  <2>2. pc = "recommended" => left = {}
    BY DEF MergeInv
  <2>3. /\ pc' \in {pc, "recommended"}
        /\ pc' = "merge" => left' = left
        /\ pc' = "recommended" => left' = {} /\ (pc = "recommended" \/ (pc = "merge" /\ left = {}))
    BY <2>1, <2>2
  <2>4. analysed' = analysed /\ rec' = rec
    BY <2>1
  <2>5. QED
    BY <1>4, <2>3, <2>4
<1>7. CASE Restart
  <2>1. CASE pc = "recommended"
    BY <1>4, <1>7, <2>1 DEF Restart
  <2>2. CASE pc # "recommended"
    BY <1>5, <1>7, <2>2 DEF Restart
  <2>3. QED
    BY <2>1, <2>2
<1>8. CASE BeginChecks \/ EndChecks
           \/ \E c \in Check : SubmitCheck(c) \/ SkipCheck(c) \/ Resubmit(c) \/ Panic(c)
  BY <1>5, <1>8 DEF BeginChecks, EndChecks, SubmitCheck, SkipCheck, Resubmit, Panic
<1>9. QED
  BY <1>2, <1>3, <1>6, <1>7, <1>8 DEF Next, ReconcilerStep

-----------------------------------------------------------------------------
\* The recommendation is the union of what the successful checks reported, after
\* what the pod template sets, whatever the order in which the map was iterated:
\* provided that the spec gives the pod and its containers no different users.
THEOREM OrderDoesNotMatter == Spec => []RecommendationIsUnique
<1>1. Init => MergeInv
  BY DEF Init, MergeInv
<1>2. MergeInv => RecommendationIsUnique
  <2> SUFFICES ASSUME MergeInv, pc = "recommended", NoUserConflict PROVE RecommendationIsUnique
    BY DEF RecommendationIsUnique
  <2>1. Passed \ left = Passed
    BY DEF MergeInv
  <2>2. \A f \in PodField : rec.pod[f] = Or(OwnPod[f], AgreedInPod(f))
    BY <2>1 DEF MergeInv, MergedPod, PodOf, AgreedInPod
  <2>3. \A f \in ContainerField \ {"runAsNonRoot"} :
          rec.container[f] = IF f = "capabilitiesDrop" THEN OwnMain[f] \cup AgreedInMain(f)
                             ELSE Or(OwnMain[f], AgreedInMain(f))
    BY <2>1 DEF MergeInv, MergedMain, MainOf, AgreedInMain
  <2>4. QED
    BY <2>2, <2>3 DEF RecommendationIsUnique, OwnPod, OwnMain
<1>3. QED
  BY <1>1, <1>2, MergeStep, AgreeInvariant, RecInvariant, TypesInvariant, PTL DEF Spec

\* All checks that were successful report the same value of a setting of the pod
\* or of its containers, if they report any: shared contexts or not.
THEOREM ChecksAgree ==
  Spec => [](NoUserConflict => \A c, d \in Passed :
               /\ \A f \in PodField : PodOf(c, f) = PodOf(d, f) \/ {} \in {PodOf(c, f), PodOf(d, f)}
               /\ \A f \in ContainerField :
                    MainOf(c, f) = MainOf(d, f) \/ {} \in {MainOf(c, f), MainOf(d, f)})
<1> DEFINE Agreed == NoUserConflict => \A c, d \in Passed :
             /\ \A f \in PodField : PodOf(c, f) = PodOf(d, f) \/ {} \in {PodOf(c, f), PodOf(d, f)}
             /\ \A f \in ContainerField :
                  MainOf(c, f) = MainOf(d, f) \/ {} \in {MainOf(c, f), MainOf(d, f)}
<1>1. TInv /\ AgreeInv => Agreed
  BY ReportsAgree
<1>2. QED
  BY <1>1, AgreeInvariant, TypesInvariant, PTL
=============================================================================
