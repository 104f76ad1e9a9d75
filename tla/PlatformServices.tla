---------------------------- MODULE PlatformServices ----------------------------
(***************************************************************************)
(* What the route modules share: the session of a browser, the sign-in     *)
(* limiters, the cache of signing keys, the templates and forms with their *)
(* approvals, the rules of a report's fields, the audit chain and the      *)
(* attachments; and, of the client, the form of a report, the record       *)
(* panels and the lists of a facility.  None of them reads the state of    *)
(* another, so, as in FacilityOperations, service says which moves.        *)
(***************************************************************************)
EXTENDS Sessions, SignInThrottle, KeyCache, TemplateGovernance, AuditChain,
        Attachments, ReportFields, ReportForm, RecordPanels, FacilityLists

VARIABLE service   \* the component that moves

servicesVars == <<service, sessionVars, throttleVars, keyVars, governanceVars,
                  auditChainVars, attachmentVars, fieldVars, formVars,
                  panelVars, listsVars>>

\* Where a component may start in several ways, one will do for those that stay.
ServicesInit ==
  /\ service \in {"sessions", "throttle", "keys", "governance", "audit",
                  "attachments", "fields", "form", "panels", "lists"}
  /\ service # "sessions" => cookie = 1
  /\ service # "governance" => /\ requiresApproval = TRUE
                               /\ versions = [v \in VersionNumbers |-> NoVersion]
  /\ service # "fields" => schema = CHOOSE s \in Schemas : TRUE
  /\ service # "panels" => /\ panel = "incidents" /\ known = DOMAIN PlaceOf
                           /\ here = CHOOSE f \in Places : TRUE
  /\ service # "lists" => listed = "tiles" /\ venue = CHOOSE f \in Venues : TRUE
  /\ SessionsInit /\ ThrottleInit /\ KeyCacheInit
  /\ GovernanceInit /\ AuditChainInit /\ AttachmentsInit
  /\ ReportFieldsInit /\ ReportFormInit /\ RecordPanelsInit /\ FacilityListsInit
  /\ service # "form" => \A r \in Drafts : draftRows[r].status = "draft"

\* A component moves, or nothing of it does.
Serves(component, step, vars) == IF service = component THEN step ELSE UNCHANGED vars

ServicesNext ==
  /\ UNCHANGED service
  /\ Serves("sessions", SessionsNext, sessionVars)
  /\ Serves("throttle", ThrottleNext, throttleVars)
  /\ Serves("keys", KeyCacheNext, keyVars)
  /\ Serves("governance", GovernanceNext, governanceVars)
  /\ Serves("audit", AuditChainNext, auditChainVars)
  /\ Serves("attachments", AttachmentsNext, attachmentVars)
  /\ Serves("fields", ReportFieldsNext, fieldVars)
  /\ Serves("form", ReportFormNext, formVars)
  /\ Serves("panels", RecordPanelsNext, panelVars)
  /\ Serves("lists", FacilityListsNext, listsVars)

ServicesSpec == ServicesInit /\ [][ServicesNext]_servicesVars

-----------------------------------------------------------------------------
ServicesTypeOK ==
  CASE service = "sessions"    -> SessionsTypeOK
    [] service = "throttle"    -> ThrottleTypeOK
    [] service = "keys"        -> KeyCacheTypeOK
    [] service = "governance"  -> GovernanceTypeOK
    [] service = "audit"       -> AuditChainTypeOK
    [] service = "attachments" -> AttachmentsTypeOK
    [] service = "fields"      -> ReportFieldsTypeOK
    [] service = "form"        -> ReportFormTypeOK
    [] service = "panels"      -> RecordPanelsTypeOK
    [] service = "lists"       -> FacilityListsTypeOK

\* What PanelsInv and ListsInv say of the client's record panels and lists.
ScreensInv == PanelsInv /\ ListsInv
=============================================================================
