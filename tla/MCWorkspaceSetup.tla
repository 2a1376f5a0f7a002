-------------------------- MODULE MCWorkspaceSetup --------------------------
(* Two sites with a PAT each, one of which knows the root page; gh is      *)
(* authenticated for one of two hosts.                                     *)
EXTENDS WorkspaceCheck, TLC

CONSTANTS w1, c1

MCReference == [n \in SecretNames |-> "secret:" \o n]

MCValues == BaseURLs \cup Spaces \cup RootPages \cup Hosts \cup Owners
              \cup {DefaultAuthType, "basic", "none"} \cup {MCReference[n] : n \in SecretNames}

MCUserKeys == {BaseURLKey, SpaceKey, SecretKey, AuthTypeKey, RootPageKey, HostKey, OrganizationKey}

(* Every key may hold what it should, one also what it should not.         *)
MCTyped ==
    [k \in MCUserKeys |->
        CASE k = BaseURLKey -> BaseURLs
          [] k = SecretKey -> {MCReference[n] : n \in SecretNames} \cup {"none"}
          [] k = AuthTypeKey -> {"basic"}
          [] k = RootPageKey -> RootPages
          [] k = HostKey -> {"none"}
          [] k = OrganizationKey -> {"ACME"}
          [] OTHER -> {}]

MCLogin == [o \in Owners |-> IF o = "ACME" THEN "acme" ELSE o]

MCPersonal == [h \in Hosts |-> "acme"]

MCOrganizations == [h \in Hosts |-> <<"ACME">>]

MCAccepted ==
    {<<"siteA", "DEV", NULL, "patA">>, <<"siteA", "DEV", "100", "patA">>,
     <<"siteB", "DEV", NULL, "patB">>}
=============================================================================
