---------------------------- MODULE HealthManager ----------------------------
(***************************************************************************)
(* The health manager of @waku/core (core/src/lib/health_manager.ts): one  *)
(* status per protocol and an overall status.  It is a singleton without a *)
(* loop of its own; its users call updateProtocolHealth.                   *)
(***************************************************************************)
EXTENDS Naturals

VARIABLES protocolStatuses, overallStatus

healthVars == <<protocolStatuses, overallStatus>>

Protocols == {"LightPush", "Filter", "Store"}
relevantProtocols == {"LightPush", "Filter"}
HealthStatus == {"Unhealthy", "MinimallyHealthy", "SufficientlyHealthy"}

\* "undefined": the protocol has reported nothing.
HealthTypeOK ==
    /\ protocolStatuses \in [Protocols -> HealthStatus \cup {"undefined"}]
    /\ overallStatus \in HealthStatus

\* The status of a protocol with n peers.
StatusOf(n) ==
    IF n = 0 THEN "Unhealthy"
    ELSE IF n = 1 THEN "MinimallyHealthy" ELSE "SufficientlyHealthy"

\* The worst status that a relevant protocol has reported.  The mutant takes
\* a protocol that is minimally healthy for a healthy one.
OverallWithoutMinimal(statuses) ==
    IF "Unhealthy" \in statuses THEN "Unhealthy" ELSE "SufficientlyHealthy"
Overall(statuses) ==
    IF "Unhealthy" \in statuses THEN "Unhealthy"
    ELSE IF "MinimallyHealthy" \in statuses THEN "MinimallyHealthy"
    ELSE "SufficientlyHealthy"

updateProtocolHealth(p, n) ==
    /\ protocolStatuses' = [protocolStatuses EXCEPT ![p] = StatusOf(n)]
    /\ overallStatus' = Overall({protocolStatuses'[q] : q \in relevantProtocols})
=============================================================================
