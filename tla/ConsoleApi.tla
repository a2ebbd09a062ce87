----------------------------- MODULE ConsoleApi -----------------------------
(***************************************************************************)
(* The calls of the web console to its server (services/api.ts), one set   *)
(* per family.  Every call goes through apiFetch, which reads the token    *)
(* and the active company from localStorage when the call is sent.         *)
(***************************************************************************)
EXTENDS Integers, Sequences

DiagnosticCalls == {"health", "interfaces", "ping", "scan_ports", "dns"}

DeviceCalls == {"devices", "create_device", "update_device", "delete_device",
                "test_ssh", "audit_device", "compliance"}

RoutingCalls == {"bgp", "ospf", "exec"}

TelemetryCalls == {"overview", "status", "collect", "history", "alerts", "ack_alert"}

BmpCalls == {"bmp_status", "bmp_peers", "bmp_events", "bmp_guide",
             "churn", "rpki_summary", "rpki_validate", "rpki_invalids"}

StaticRouteCalls == {"routes", "create_route", "delete_route", "traffic_status"}

PrependCalls == {"prepends", "apply_prepend"}

UploadCalls == {"upload_overview", "apply_local_pref"}

MetadataCalls == {"as_metadata", "save_as_metadata", "peer_metadata", "save_peer_metadata", "as_image"}

AuthCalls == {"login", "me"}

AuditCalls == {"audit_logs"}

ProfileCalls == {"profiles", "create_profile", "update_profile", "delete_profile",
                 "capture", "diff", "apply_profile"}

TenantCalls == {"tenants", "create_tenant", "update_tenant", "delete_tenant"}

UserCalls == {"users", "create_user", "update_user", "delete_user"}

LicenseCalls == {"license", "activate"}

Calls == UNION {DiagnosticCalls, DeviceCalls, RoutingCalls, TelemetryCalls, BmpCalls,
                StaticRouteCalls, PrependCalls, UploadCalls, MetadataCalls, AuthCalls,
                AuditCalls, ProfileCalls, TenantCalls, UserCalls, LicenseCalls}

\* The one call whose function answers an empty table instead of throwing.
Swallows == {"peer_metadata"}

Throws(c) == c \in Calls \ Swallows

\* What a request carries: read from the store when it is sent.
Headers(store) == [token |-> store.token, tenant |-> store.tenant]
=============================================================================
