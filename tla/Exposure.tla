------------------------------ MODULE Exposure ------------------------------
(***************************************************************************)
(* What an instance may expose: the rules of src/kx_agent/network/, and    *)
(* those that the renderer of the compose file applies itself              *)
(* (src/kx_agent/runtime/compose.py).  Every operator is a function of its *)
(* arguments.                                                              *)
(*                                                                         *)
(* A setting names a profile, a mode, whether public mode is on, when it   *)
(* ends and the host.  "over" is a time in the past, "far" one more than   *)
(* 24 hours ahead.                                                         *)
(***************************************************************************)
EXTENDS Naturals

Profiles == {"local_only", "intranet_private", "private_tunnel",
             "public_temporary", "public_vps", "offline"}
Modes == {"private", "lan", "vpn", "temporary_tunnel", "public"}
Expiries == {"none", "over", "ahead", "far"}
Hosts == {"loopback", "named"}
Settings == [profile : Profiles, mode : Modes, public : BOOLEAN,
             expires : Expiries, host : Hosts]

PublicProfiles == {"public_temporary", "public_vps"}
PublicModes == {"temporary_tunnel", "public"}

\* A handler's default for public_mode_enabled.
AsksForPublic(profile, mode) == profile \in PublicProfiles \/ mode \in PublicModes

\* What the Agent's request models accept, public mode having been switched on
\* for public modes, and private mode having become public for public_vps.
ApiAccepts(s) ==
    /\ s.profile = "public_vps" => s.host = "named" /\ s.public /\ s.mode # "private"
    /\ s.mode \in PublicModes => s.public
    /\ s.mode = "temporary_tunnel" => s.expires # "none"

\* What creating an instance is asked for if its caller says nothing.
CreateDefault == [profile |-> "local_only", mode |-> "private", public |-> FALSE,
                  expires |-> "none", host |-> "loopback"]

-----------------------------------------------------------------------------
(* The exposure plan, which network.set_profile makes.                     *)

AllowedModes == [p \in Profiles |->
    CASE p = "intranet_private" -> {"private", "lan"}
      [] p = "private_tunnel"   -> {"private", "vpn"}
      [] p = "public_temporary" -> {"temporary_tunnel"}
      [] p = "public_vps"       -> {"public"}
      [] OTHER                  -> {"private"}]

\* The handler never leaves the host empty, which an offline profile requires.
ProfileModeValid(s) ==
    /\ s.mode \in AllowedModes[s.profile]
    /\ s.public <=> s.mode \in PublicModes
    /\ s.profile # "offline"

ExpirationValid(s) ==
    CASE s.mode = "temporary_tunnel" -> s.expires = "ahead"
      [] s.mode = "public"           -> TRUE
      [] OTHER                       -> s.expires = "none"

Plannable(s) == ProfileModeValid(s) /\ ExpirationValid(s)

\* A plan whose time is over falls back to private mode, in the same profile.
Plan(s) == IF s.expires = "over" THEN [s EXCEPT !.mode = "private", !.public = FALSE] ELSE s

\* What disabling public mode, and expiring it, ask for.
PrivateFallback(host) == [profile |-> "intranet_private", mode |-> "private", public |-> FALSE,
                          expires |-> "none", host |-> host]

-----------------------------------------------------------------------------
(* The profiles of network/profiles.py, a second set of rules.             *)

ProfilePublic(profile) == profile \in PublicProfiles
SelectionValid(s) ==
    /\ s.mode \in AllowedModes[s.profile]
    /\ s.public = ProfilePublic(s.profile)
    /\ s.profile = "public_temporary" => s.expires # "none"
    /\ s.profile = "public_vps" => s.host = "named"

-----------------------------------------------------------------------------
(* The renderer's rules, a third set.                                      *)

Renderable(s) ==
    /\ s.profile = "public_vps" => s.host = "named"
    /\ s.profile = "public_temporary" => s.mode = "temporary_tunnel"
    /\ s.mode = "temporary_tunnel" => s.expires # "none"

\* normalized(): public mode is on if anything asks for it.
Normal(s) == [s EXCEPT !.public = @ \/ AsksForPublic(s.profile, s.mode)]

\* Published ports of Traefik, the only service that publishes any.
Bindings(s) ==
    CASE s.profile = "offline" -> {}
      [] s.profile \in {"intranet_private", "public_vps"} ->
            {[ip |-> "any", port |-> p] : p \in {80, 443}}
      [] OTHER -> {[ip |-> "loopback", port |-> 443]}

\* Whoever reaches the host reaches the instance.
Open(s) == \E b \in Bindings(s) : b.ip = "any"
=============================================================================
