--------------------------- MODULE WorkspaceCheck ---------------------------
(***************************************************************************)
(* devdash workspace check on the state a workspace setup leaves behind:   *)
(* the status of each integration and of the workspace.  The check changes *)
(* nothing, and every part of it is decided even when another fails.       *)
(***************************************************************************)
EXTENDS WorkspaceSetup

GitHubKeys == {HostKey, OrganizationKey}
ConfluenceKeys == {BaseURLKey, SpaceKey, SecretKey, AuthTypeKey, RootPageKey}

NamespaceEmpty(entries, keys) == \A k \in keys : entries[k] = NULL

(* A missing owner goes before an invalid host and a failed login.         *)
GitHubStatus(entries) ==
    IF NamespaceEmpty(entries, GitHubKeys) THEN "not configured"
    ELSE IF entries[OrganizationKey] = NULL THEN "incomplete"
    ELSE IF EffectiveHost(entries) \in Authenticated THEN "ready"
    ELSE "degraded"

(* A missing required key goes before an invalid one, a missing secret and *)
(* a check that fails.                                                     *)
ConfluenceStatus(entries) ==
    LET resolved == EffectiveConfluence(entries)
    IN  IF NamespaceEmpty(entries, ConfluenceKeys) THEN "not configured"
        ELSE IF \E k \in {BaseURLKey, SpaceKey, SecretKey} : entries[k] = NULL THEN "incomplete"
        ELSE IF resolved = NULL THEN "degraded"
        ELSE IF Validates(resolved) THEN "ready"
        ELSE "degraded"

(* ok says that the root directory and the local inspections are fine.     *)
WorkspaceStatus(entries, ok) ==
    LET statuses == {GitHubStatus(entries), ConfluenceStatus(entries)}
    IN  IF "incomplete" \in statuses THEN "incomplete"
        ELSE IF "degraded" \in statuses \/ ~ok THEN "degraded"
        ELSE "ready"

-----------------------------------------------------------------------------
(* Properties. *)

(* When a setup is done, workspace check finds every integration it set up *)
(* ready, whatever earlier commands and interrupted setups left behind.    *)
SetupLeavesReady ==
    \A c \in Procs : (At(c, "done") /\ Live(setup[c].workspace)) =>
        LET entries == config[setup[c].workspace]
        IN  /\ "github" \in setup[c].providers => GitHubStatus(entries) = "ready"
            /\ "confluence" \in setup[c].providers => ConfluenceStatus(entries) = "ready"
            /\ {"github", "confluence"} \subseteq setup[c].providers
                 => WorkspaceStatus(entries, TRUE) = "ready"

(* A setup that stops half way never makes a complete Confluence           *)
(* configuration incomplete: no required entry is taken away.              *)
SetupKeepsComplete ==
    [][ \A w \in WorkspaceIds :
          (setup' # setup /\ ConfluenceStatus(config[w]) \in {"ready", "degraded"})
             => ConfluenceStatus(config'[w]) \in {"ready", "degraded"} ]_setupVars
=============================================================================
