------------------------- MODULE MCSecurityContexts -------------------------
(***************************************************************************)
(* Instances of SecurityContexts for TLC.  Of most pod templates two        *)
(* checks are left to run; together the templates require all five.        *)
(***************************************************************************)
EXTENDS SecurityContexts, TLC

CONSTANTS main, sidecar

MCContainer == {main, sidecar}
MCValue == {"1000", "2000", "true", "false", "ALL", "NET_RAW", "RuntimeDefault"}

Pod(settings) == [f \in PodField |-> IF f \in DOMAIN settings THEN settings[f] ELSE {}]
Ctr(settings) == [f \in ContainerField |-> IF f \in DOMAIN settings THEN settings[f] ELSE {}]

\* spec.securityContext: none, empty, a user for the pod, a user for both and a
\* profile, only a container's, only a pod's.
MCSpecContext ==
  {Nil, NoContexts,
   [pod |-> Pod("runAsUser" :> {"2000"}), container |-> Ctr(<<>>)],
   [pod |-> Pod("runAsUser" :> {"2000"} @@ "seccompProfile" :> {"RuntimeDefault"}),
    container |-> Ctr("runAsUser" :> {"2000"} @@ "readOnlyRootFilesystem" :> {"false"})],
   [pod |-> Nil, container |-> Ctr("capabilitiesDrop" :> {"NET_RAW"})],
   [pod |-> Pod("fsGroup" :> {"2000"}), container |-> Nil]}

Hardened == "readOnlyRootFilesystem" :> {"true"} @@ "allowPrivilegeEscalation" :> {"false"}
            @@ "capabilitiesDrop" :> {"ALL"}
Both(settings) == [k \in MCContainer |-> Ctr(settings)]
Closed == Pod("runAsUser" :> {"2000"} @@ "runAsGroup" :> {"2000"} @@ "fsGroup" :> {"2000"}
              @@ "runAsNonRoot" :> {"true"})

\* What is left to check: group and user, of nothing set and of a set user;
\* user and root file system; privilege escalation and capabilities, of one
\* container more than of the other.
MCPairs ==
  {[pod |-> Nil, container |-> Both(Hardened)],
   [pod |-> Pod("runAsUser" :> {"2000"}),
    container |-> Both(Hardened @@ "runAsUser" :> {"2000"})],
   [pod |-> Pod("runAsGroup" :> {"2000"} @@ "fsGroup" :> {"2000"}),
    container |-> main :> Ctr(Hardened @@ "runAsNonRoot" :> {"false"})
                  @@ sidecar :> Ctr([Hardened EXCEPT !["readOnlyRootFilesystem"] = {"false"}])],
   [pod |-> Closed,
    container |-> main :> Ctr([Hardened EXCEPT !["capabilitiesDrop"] = {"NET_RAW"}])
                  @@ sidecar :> Ctr("readOnlyRootFilesystem" :> {"true"})]}

\* Nothing set: all five checks.
MCBare == [pod |-> Nil, container |-> [k \in MCContainer |-> Nil]]

MCScenario ==
  [spec : MCSpecContext, mode : {"parallel", "sequential"}, template : MCPairs]
    \cup [spec : {Nil}, mode : {"parallel"}, template : {MCBare}]
=============================================================================
