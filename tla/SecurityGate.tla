---------------------------- MODULE SecurityGate ----------------------------
(***************************************************************************)
(* The Security Gate (src/kx_agent/security/gate.py): fifteen checks of a  *)
(* context, the status they add up to and whether an instance may start.   *)
(*                                                                         *)
(* A context is what the handler and the evidence of the host found:       *)
(*   signature, checksums, manifest   of the capsule's extracted files     *)
(*   secrets     "missing", "placeholder" or "generated"                   *)
(*   services    of the compose file: name, image, published ports, and    *)
(*               the privileges they ask for                               *)
(*   allowed     images that the capsule's manifest names                  *)
(*   firewall, backup   of the host                                        *)
(*   relaxed     checks that a policy switch turns into warnings           *)
(***************************************************************************)
EXTENDS Naturals

InternalPorts == {3000, 5000, 5432, 6379, 5555, 8000}
Relaxable == {"capsule_signature", "docker_socket_not_mounted", "no_privileged_containers",
              "no_host_network", "allowed_images_only"}
Advisory == {"firewall_enabled", "admin_surface_private", "backup_configured"}
Checks == Relaxable \cup Advisory \cup
          {"image_checksums", "manifest_schema", "secrets_present", "secrets_not_default",
           "dangerous_ports_blocked", "postgres_not_public", "redis_not_public"}
Blocking == Checks \ Advisory

-----------------------------------------------------------------------------
(* The checks that offend, by what they look at.                           *)

Of(offends, check) == IF offends THEN {check} ELSE {}

OfCapsule(c) ==
    Of(~c.signature, "capsule_signature") \cup Of(~c.checksums, "image_checksums")
        \cup Of(~c.manifest, "manifest_schema")

OfSecrets(c) ==
    Of(c.secrets = "missing", "secrets_present") \cup Of(c.secrets # "generated", "secrets_not_default")

\* A service is public if it publishes a port, or any service publishes its.
Reachable(c, name, port) ==
    \E s \in c.services : (s.name = name /\ s.ports # {}) \/ port \in s.ports

OfPorts(c) ==
    Of(\E s \in c.services : s.ports \cap InternalPorts # {}, "dangerous_ports_blocked")
        \cup Of(Reachable(c, "postgres", 5432), "postgres_not_public")
        \cup Of(Reachable(c, "redis", 6379), "redis_not_public")

Asks(c, privilege) == \E s \in c.services : privilege \in s.privileges

OfPrivileges(c) ==
    Of(Asks(c, "docker_socket"), "docker_socket_not_mounted")
        \cup Of(Asks(c, "privileged"), "no_privileged_containers")
        \cup Of(Asks(c, "host_network"), "no_host_network")

OfHost(c) ==
    Of(\E s \in c.services : s.image \notin c.allowed, "allowed_images_only")
        \cup Of(~c.firewall, "firewall_enabled") \cup Of(~c.backup, "backup_configured")
        \cup Of(\E s \in c.services : s.name # "traefik" /\ s.ports # {}, "admin_surface_private")

Offends(c) == OfCapsule(c) \cup OfSecrets(c) \cup OfPorts(c) \cup OfPrivileges(c) \cup OfHost(c)

\* A relaxed check warns without looking; an advisory one only ever warns.
Results(c) ==
    LET offending == Offends(c)
    IN  [check \in Checks |->
            IF check \in c.relaxed THEN "WARN"
            ELSE IF check \notin offending THEN "PASS"
            ELSE IF check \in Advisory THEN "WARN" ELSE "FAIL_BLOCKING"]

\* _derive_status; the checks themselves never answer UNKNOWN or SKIPPED.
Derived(results, fallback) ==
    LET Some(status, of) == \E check \in of : results[check] = status IN
    CASE Some("FAIL_BLOCKING", Blocking) -> "FAIL_BLOCKING"
      [] ~Some("FAIL_BLOCKING", Blocking) /\ Some("UNKNOWN", Blocking) -> "UNKNOWN"
      [] ~Some("FAIL_BLOCKING", Blocking) /\ ~Some("UNKNOWN", Blocking) /\ Some("WARN", Checks) -> "WARN"
      [] \A check \in Checks : results[check] \in {"PASS", "SKIPPED"} -> "PASS"
      [] OTHER -> fallback

\* is_security_gate_passing
Passing(results) ==
    \A check \in Blocking : results[check] \notin {"FAIL_BLOCKING", "UNKNOWN"}

GatePasses(c) == Passing(Results(c))
=============================================================================
