-------------------------- MODULE PermissionCatalog --------------------------
(***************************************************************************)
(* The permission codes the installation seeds, what it grants to each     *)
(* seeded job title, and what each route of the API asks of its caller     *)
(* (src/app/apps/permissions/catalog.py and the routers of the             *)
(* applications).                                                          *)
(*                                                                         *)
(* A code "module.action" is the pair <<"module", "action">>.  A route     *)
(* asks for a set of guards, all of which must let the caller in; a guard  *)
(* is the set of codes of which one suffices.  A super admin passes every  *)
(* guard, so a guard without codes lets in nobody else, and a route        *)
(* without guards asks for no permission at all.                           *)
(***************************************************************************)
EXTENDS TLC

In(module, actions) == {module} \X actions

(* LEGACY_PERMISSION_ALIASES: names codes had earlier.                     *)
LegacyAliases ==
  (<<"organization", "read">> :> <<"organization", "view">>)
  @@ (<<"organization", "read_hierarchy">> :> <<"organization", "hierarchy.view">>)
  @@ (<<"organization", "company_hierarchy">> :> <<"organization", "hierarchy.view_all">>)
  @@ (<<"messages", "read_users">> :> <<"messages", "recipients.view">>)
  @@ (<<"messages", "templates">> :> <<"messages", "templates.manage">>)
  @@ (<<"requests", "read_all">> :> <<"requests", "view_all">>)
  @@ (<<"requests", "read_my_approvals">> :> <<"requests", "approvals.view">>)
  @@ (<<"dashboard", "analytics.read">> :> <<"dashboard", "analytics.view">>)
  @@ (<<"", "create_requests">> :> <<"requests", "create">>)
  @@ (<<"", "manage_requests">> :> <<"requests", "manage">>)
  @@ [c \in {"employees", "permissions", "announcements", "messages", "requests",
             "attendance", "performance", "dashboard"} \X {"read"} |-> <<c[1], "view">>]

(* CANONICAL_PERMISSIONS, in three parts.                                  *)
PeoplePermissions ==
  In("organization", {"view", "hierarchy.view", "hierarchy.view_all", "create", "update",
                      "deactivate"})
  \cup In("employees", {"view", "create", "update"})
  \cup In("permissions", {"view", "create", "update", "assign"})
  \cup In("announcements", {"view", "create", "update", "delete"})
  \cup In("messages", {"view", "recipients.view"})

WorkPermissions ==
  In("messages", {"send_all", "send_same_or_down", "reply", "templates.manage", "send"})
  \cup In("requests", {"view", "create", "approve", "approvals.view", "manage", "view_all"})
  \cup In("attendance", {"view", "ingest", "nfc.ingest", "nfc.view_cards", "nfc.assign_card",
                         "reports.generate"})
  \cup In("performance", {"view", "create"})

LaterPermissions ==
  In("performance", {"manage"}) \cup In("dashboard", {"view", "manage", "analytics.view"})
  \cup In("tasks", {"view", "complete", "manage"}) \cup In("profile", {"view"})
  \cup In("admin_panel", {"access"})
  \cup In("employees", {"view_contract_type", "update_contract_type"})
  \cup In("forgot_badge", {"create", "view_own", "view_all", "manage"})
  \cup In("attendance", {"nfc.assign_temporary_card", "nfc.release_temporary_card"})

CanonicalPermissions == PeoplePermissions \cup WorkPermissions \cup LaterPermissions

-----------------------------------------------------------------------------
(* ROLE_PERMISSION_MATRIX.  What every seeded title is granted, and what   *)
(* all but the platform owner and the HR manager share on top of it.       *)
CommonGrants ==
  In("announcements", {"view"}) \cup In("messages", {"view", "recipients.view", "reply"})
  \cup In("requests", {"view"}) \cup In("attendance", {"view"}) \cup In("dashboard", {"view"})
  \cup In("tasks", {"view", "complete"}) \cup In("profile", {"view"})

StaffGrants == CommonGrants \cup In("messages", {"send_same_or_down"})

OfficeGrants ==
  StaffGrants \cup In("organization", {"view"})
  \cup In("employees", {"view", "view_contract_type"}) \cup In("tasks", {"manage"})

CardDeskGrants ==
  In("attendance", {"nfc.view_cards", "nfc.assign_card", "nfc.assign_temporary_card",
                    "nfc.release_temporary_card"})
  \cup In("forgot_badge", {"view_all", "manage"})

ApproverGrants == In("requests", {"create", "approve", "approvals.view"})

ManagerRoles ==
  [SUPER_ADMIN |-> CanonicalPermissions,
   RH_MANAGER |-> CanonicalPermissions
                  \ (In("admin_panel", {"access"}) \cup In("dashboard", {"manage"})
                     \cup In("messages", {"send", "send_same_or_down"})
                     \cup In("performance", {"create"}))]

OfficeRoles ==
  [HR_ASSISTANT |-> OfficeGrants \cup CardDeskGrants \cup In("organization", {"hierarchy.view"})
                    \cup In("employees", {"create", "update"})
                    \cup In("announcements", {"create", "update"}) \cup In("requests", {"create"})
                    \cup In("forgot_badge", {"create", "view_own"}),
   ATTENDANCE_MANAGER |-> OfficeGrants \cup CardDeskGrants
                          \cup In("attendance", {"ingest", "nfc.ingest", "reports.generate"})
                          \cup In("dashboard", {"analytics.view"}),
   FINANCE_PAYROLL |-> OfficeGrants \cup In("attendance", {"reports.generate"})
                       \cup In("dashboard", {"analytics.view"})]

LineRoles ==
  [DEPARTMENT_MANAGER |-> OfficeGrants \cup ApproverGrants
                          \cup In("organization", {"hierarchy.view"})
                          \cup In("performance", {"view"})
                          \cup In("forgot_badge", {"view_own", "view_all"}),
   TEAM_LEADER |-> StaffGrants \cup ApproverGrants \cup In("organization", {"hierarchy.view"})
                   \cup In("performance", {"create", "view"})
                   \cup In("forgot_badge", {"view_own"}) \cup In("tasks", {"manage"}),
   EMPLOYEE |-> StaffGrants \cup In("requests", {"create"})
                \cup In("forgot_badge", {"create", "view_own"})]

RoleMatrix == ManagerRoles @@ OfficeRoles @@ LineRoles
RoleTitles == DOMAIN RoleMatrix

(* What the permission migration grants instead, to four of the titles.    *)
NewerModules == In("tasks", {"view", "complete", "manage"}) \cup In("profile", {"view"})
                \cup In("forgot_badge", {"create", "view_own", "view_all", "manage"})
MigratedGrants ==
  [RH_MANAGER |->
     RoleMatrix["RH_MANAGER"]
     \ (NewerModules \cup In("organization", {"hierarchy.view_all", "deactivate"})
        \cup In("employees", {"view_contract_type", "update_contract_type"})
        \cup In("permissions", {"create", "update"}) \cup In("dashboard", {"analytics.view"})
        \cup In("attendance", {"nfc.view_cards", "nfc.assign_temporary_card",
                               "nfc.release_temporary_card"})),
   DEPARTMENT_MANAGER |->
     (RoleMatrix["DEPARTMENT_MANAGER"]
      \ (NewerModules \cup In("employees", {"view_contract_type"})
         \cup In("requests", {"create"})))
     \cup In("announcements", {"create", "update", "delete"}),
   TEAM_LEADER |-> RoleMatrix["TEAM_LEADER"] \ NewerModules,
   EMPLOYEE |-> RoleMatrix["EMPLOYEE"]
                \ (NewerModules \cup In("attendance", {"view"}) \cup In("dashboard", {"view"}))]

-----------------------------------------------------------------------------
(* The routes: Ask(names, guards) asks the same guards of all the names.   *)
Ask(names, guards) == [n \in names |-> guards]
One(module, action) == {<<module, action>>}
AnyAccount(names) == Ask(names, {})
SuperAdminOnly(names) == Ask(names, {{}})

AnnouncementReads ==
  Ask({"list_announcements", "get_announcement"}, {One("announcements", "read")})
  @@ Ask({"create_announcement"}, {One("announcements", "create")})
AnnouncementWrites ==
  Ask({"update_announcement", "add_announcement_attachments",
       "delete_announcement_attachment"}, {One("announcements", "update")})
  @@ Ask({"delete_announcement"}, {One("announcements", "delete")})
  @@ Ask({"get_announcement_attachment", "mark_announcement_as_seen"},
         {One("announcements", "read")})

AttendanceCardRoutes ==
  AnyAccount({"get_attendance_status"})
  @@ Ask({"ingest_scan_event"}, {One("attendance", "ingest")})
  @@ Ask({"ingest_nfc_scan_event"}, {In("attendance", {"nfc.ingest", "ingest"})})
  @@ Ask({"assign_nfc_card"}, {One("attendance", "nfc.assign_card")})
  @@ Ask({"list_nfc_cards"}, {In("attendance", {"nfc.view_cards", "nfc.assign_temporary_card",
                                                "nfc.assign_card"})})
AttendanceReportRoutes ==
  Ask({"list_daily_summaries", "get_employee_daily_summaries", "list_monthly_reports",
       "get_monthly_report"}, {One("attendance", "read")})
  @@ Ask({"generate_monthly_reports"}, {One("attendance", "reports.generate")})

AccountRoutes == AnyAccount({"read_current_user", "change_password"})

DashboardSummaries ==
  AnyAccount({"get_dashboard_status"})
  @@ Ask({"get_overview", "get_requests_summary", "get_attendance_summary",
          "get_attendance_dashboard"}, {One("dashboard", "read")})
DashboardStats ==
  Ask({"get_performance_summary", "get_employees_summary", "get_employee_stats",
       "get_company_stats"}, {One("dashboard", "read")})

EmployeeRoutes ==
  Ask({"create_employee"}, {One("employees", "create")})
  @@ Ask({"list_employees", "get_employee"}, {One("employees", "read")})
  @@ Ask({"update_employee"}, {One("employees", "update")})

ForgotBadgeReads ==
  Ask({"create_forgot_badge_request"}, {One("forgot_badge", "create")})
  @@ Ask({"list_my_forgot_badge_requests"}, {One("forgot_badge", "view_own")})
  @@ Ask({"list_forgot_badge_requests", "get_forgot_badge_request"},
         {One("forgot_badge", "view_all")})
ForgotBadgeDecisions ==
  Ask({"approve_forgot_badge_request"},
      {One("forgot_badge", "manage"), One("attendance", "nfc.assign_temporary_card")})
  @@ Ask({"reject_forgot_badge_request", "complete_forgot_badge_request"},
         {One("forgot_badge", "manage")})
  @@ Ask({"cancel_forgot_badge_request"}, {One("forgot_badge", "create")})
  @@ Ask({"release_temporary_nfc_card"}, {One("attendance", "nfc.release_temporary_card")})

Sending == In("messages", {"send_all", "send_same_or_down", "send"})
MessageSends ==
  Ask({"send_message"}, {Sending})
  @@ Ask({"reply_to_message"}, {Sending \cup One("messages", "reply")})
  @@ Ask({"list_available_recipient_users"}, {In("messages", {"read_users", "send"})})
MessageReads ==
  Ask({"list_inbox_messages", "list_sent_messages", "get_unread_message_count", "get_message",
       "mark_message_as_read"}, {One("messages", "read")})
TemplateRoutes ==
  Ask({"create_message_template", "list_message_templates", "get_message_template",
       "update_message_template", "delete_message_template"}, {One("messages", "templates")})

NotificationRoutes ==
  AnyAccount({"list_my_notifications", "get_unread_notification_count",
              "mark_all_notifications_as_read", "mark_notification_as_read"})

DepartmentRoutes ==
  Ask({"create_department"}, {One("organization", "create")})
  @@ Ask({"get_current_user_hierarchy"}, {One("organization", "read_hierarchy")})
  @@ Ask({"get_company_hierarchy"}, {In("organization", {"company_hierarchy", "hierarchy.view"})})
  @@ Ask({"list_departments", "get_department"}, {One("organization", "read")})
  @@ Ask({"update_department"}, {One("organization", "update")})
  @@ Ask({"deactivate_department"}, {One("organization", "deactivate")})
TeamRoutes ==
  Ask({"create_team"}, {One("organization", "create")})
  @@ Ask({"list_teams", "get_team"}, {One("organization", "read")})
  @@ Ask({"update_team"}, {One("organization", "update")})
  @@ Ask({"deactivate_team"}, {One("organization", "deactivate")})
JobTitleRoutes ==
  Ask({"create_job_title"}, {One("organization", "create")})
  @@ Ask({"list_job_titles", "get_job_title"}, {One("organization", "read")})
  @@ Ask({"update_job_title"}, {One("organization", "update")})
  @@ Ask({"deactivate_job_title"}, {One("organization", "deactivate")})

ObjectiveRoutes ==
  AnyAccount({"get_performance_status"})
  @@ Ask({"create_team_objective", "update_team_objective", "list_team_objectives",
          "get_active_objective_for_team"}, {One("performance", "manage")})
PerformanceRoutes ==
  Ask({"submit_daily_performance"}, {One("performance", "create")})
  @@ Ask({"list_daily_performances", "get_daily_performance"}, {One("performance", "read")})

PermissionRoutes ==
  Ask({"create_permission", "ensure_canonical_permissions"}, {One("permissions", "create")})
  @@ Ask({"list_permissions", "get_permission", "get_job_title_permissions"},
         {One("permissions", "read")})
  @@ Ask({"update_permission"}, {One("permissions", "update")})
  @@ Ask({"assign_permissions_to_job_title", "ensure_canonical_job_title_permissions"},
         {One("permissions", "assign")})

RequestFormRoutes ==
  Ask({"list_request_types", "list_request_fields"}, {In("requests", {"create", "manage"})})
  @@ Ask({"create_request_type", "get_request_type", "update_request_type",
          "create_request_field"}, {One("requests", "manage")})
RequestStepRoutes ==
  Ask({"get_request_field", "update_request_field", "create_workflow_step",
       "list_workflow_steps", "get_workflow_step", "update_workflow_step"},
      {One("requests", "manage")})
RequestRoutes ==
  Ask({"create_request"}, {One("requests", "create")})
  @@ Ask({"list_my_requests", "get_request"}, {One("requests", "read")})
  @@ Ask({"list_pending_approvals"}, {In("requests", {"approve", "manage"})})
  @@ Ask({"list_my_approval_history"},
         {In("requests", {"read_my_approvals", "manage", "read_all"})})
  @@ Ask({"approve_request_step", "reject_request_step"}, {One("requests", "approve")})

ScannerAppRoutes ==
  SuperAdminOnly({"generate_scanner_app_build", "get_current_scanner_app_build",
                  "get_scanner_app_download_link", "list_allowed_origins"})

TaskRoutes ==
  AnyAccount({"get_tasks_status"})
  @@ Ask({"get_my_mobile_summary", "list_my_tasks"}, {One("tasks", "view")})
  @@ Ask({"complete_my_task"}, {One("tasks", "complete")})
  @@ Ask({"list_tasks", "create_task"}, {One("tasks", "manage")})

UserReads ==
  AnyAccount({"get_users_status"})
  @@ SuperAdminOnly({"list_users", "get_user", "create_user"})
UserWrites ==
  SuperAdminOnly({"update_user", "activate_user", "deactivate_user", "reset_user_password",
                  "get_user_effective_permissions"})

WizardRoutes ==
  SuperAdminOnly({"get_setup_wizard_state", "save_setup_readiness_step",
                  "save_setup_organization_step", "save_setup_job_titles_step",
                  "save_setup_permissions_step", "save_setup_job_title_permissions_step",
                  "save_setup_operational_users_step", "finalize_setup_installation",
                  "migrate_to_canonical_permissions"})

Routes ==
  AnnouncementReads @@ AnnouncementWrites @@ AttendanceCardRoutes @@ AttendanceReportRoutes
  @@ AccountRoutes @@ DashboardSummaries @@ DashboardStats @@ EmployeeRoutes
  @@ ForgotBadgeReads @@ ForgotBadgeDecisions @@ MessageSends @@ MessageReads
  @@ TemplateRoutes @@ NotificationRoutes @@ DepartmentRoutes @@ TeamRoutes @@ JobTitleRoutes
  @@ ObjectiveRoutes @@ PerformanceRoutes @@ PermissionRoutes @@ RequestFormRoutes
  @@ RequestStepRoutes @@ RequestRoutes @@ ScannerAppRoutes @@ TaskRoutes @@ UserReads
  @@ UserWrites @@ WizardRoutes

=============================================================================
