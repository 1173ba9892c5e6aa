------------------------------ MODULE AdminPages ------------------------------
(***************************************************************************)
(* The pages about people and the installation: users, roles, access       *)
(* requests, audit, reports, profile, settings, updates and health, and    *)
(* the frame around every page.  One definition per React component, as in *)
(* RouterPages.                                                            *)
(***************************************************************************)
EXTENDS FleetPages

Me    == Shows(<<"me">>, "fetchMe")
Users == Shows(<<"users">>, "listUsers")
Roles == Shows(<<"roles">>, "listRoles")

-----------------------------------------------------------------------------
(* around every page *)

\* The version it shows in the corner is nothing a page changes.
DashboardLayout == View({Me})

NotificationBell ==
  Component({Polls(<<"notifications">>, "fetchNotifications")},
            {Repeats("markNotificationsRead", {<<"notifications">>})}, NoDraft)

UpdateBanner == View({Polls(<<"update-status">>, "getUpdateStatus")})

-----------------------------------------------------------------------------
(* users and roles *)

UsersPage == View({Users})

\* A generated password is shown first; the list is refreshed when that closes.
UserForm ==
  Component({Roles}, {Saves("createUser", {<<"users">>}),
                      OnClosing(Saves("createUser", {<<"users">>}))}, Blank)

UserDetailPage ==
  Component({Users, Shows(<<"assignments">>, "listAssignments"), Roles,
             TenantList, SiteList, DeviceList, Me},
            {Does("updateUser", {<<"users">>}),
             Does("updateUser", {<<"users">>, <<"user">>}),
             Repeats("deleteAssignment", {<<"assignments">>})}, NoDraft)

ResetPasswordCard == Component({}, {Does("resetUserPassword", {})}, Blank)

AssignForm ==
  Component({}, {Saves("bulkCreateAssignments", {<<"assignments">>, <<"users">>})}, Blank)

RiskReportCard == View({Shows(<<"risk-report">>, "fetchRiskReport")})

RolesPage ==
  Component({Roles, Shows(<<"sections">>, "listSections")},
            {Repeats("deleteRole", {<<"roles">>})}, NoDraft)

RoleForm ==
  Component({}, {Saves("createRole", {<<"roles">>}), Saves("updateRole", {<<"roles">>})},
            Opened(<<"roles">>))

-----------------------------------------------------------------------------
(* access requests and audit *)

AccessRequestsPage ==
  View({Shows(<<"access-requests">>, "listAccessRequests"),
        Shows(<<"access-directory">>, "fetchDirectory")})

DirectorySection == View({Shows(<<"access-directory">>, "fetchDirectory")})

AccessRequestDetailPage ==
  Component({Shows(<<"access-request">>, "getAccessRequest"), Me, Roles},
            {Repeats("cancelAccessRequest", {<<"access-request">>, <<"access-requests">>})},
            NoDraft)

DecideCard ==
  LET keys == {<<"access-request">>, <<"access-requests">>, <<"notifications">>}
  IN  Component({}, {Leaves(Does("approveAccessRequest", keys)),
                     Leaves(Does("denyAccessRequest", keys))}, Blank)

AuditLogPage == View({Shows(<<"audit">>, "queryAudit")})

AuditSessionPage ==
  Component({Shows(<<"audit-session">>, "getAuditSession"), Me},
            {Does("revokeAuditSession", {<<"audit-session">>, <<"audit">>})}, NoDraft)

-----------------------------------------------------------------------------
(* reports *)

UserRolesView == View({Shows(<<"report", "user-roles">>, "userRolesReport")})

UserAccessView == View({Users, Shows(<<"user-access">>, "fetchUserAccessMap")})

UserActivityView == View({Shows(<<"report-user">>, "userActivityReport")})

DeviceActivityView == View({Shows(<<"report-device">>, "deviceActivityReport")})

SecretAccessView == View({Shows(<<"report-secret">>, "secretAccessReport")})

ChangeView == View({Shows(<<"report-changes">>, "changeReport")})

-----------------------------------------------------------------------------
(* the operator's own profile *)

ProfilePage == View({Me})

\* The fields are filled again whenever anything about the operator changes.
IdentitySection ==
  Component({}, {PutsAnswer(Saves("updateProfile", {}), {<<"me">>})}, Hydrated(<<"me">>))

PasswordSection == Component({}, {Saves("changePassword", {<<"me">>})}, Blank)

TotpSection ==
  Component({}, {Does("enrollTotpBegin", {}), Does("enrollTotpConfirm", {<<"me">>}),
                 Does("disableTotp", {<<"me">>})}, Blank)

OtpLoginSection ==
  Component({}, {PutsAnswer(Saves("updateProfile", {}), {<<"me">>})}, ByField(<<"me">>))

-----------------------------------------------------------------------------
(* settings: one tab at a time *)

AuthorizationSection ==
  Component({Shows(<<"auth-settings">>, "getAuthSettings")},
            {Saves("updateAuthSettings", {<<"auth-settings">>})}, Hydrated(<<"auth-settings">>))

SystemBackupSection ==
  Component({Shows(<<"system-backups">>, "listSystemBackups")},
            {Does("createSystemBackup", {<<"system-backups">>}),
             Repeats("deleteSystemBackup", {<<"system-backups">>})}, NoDraft)

OrgInfoSection ==
  Component({Shows(<<"org-info">>, "getOrgInfo")},
            {Saves("updateOrgInfo", {<<"org-info">>})}, Hydrated(<<"org-info">>))

SmsSection ==
  Component({Shows(<<"sms-settings">>, "getSmsSettings"),
             Shows(<<"sms-presets">>, "getSmsPresets")},
            {Saves("updateSmsSettings", {<<"sms-settings">>})}, Hydrated(<<"sms-settings">>))

SmsTest == Component({}, {Does("testSms", {})}, NoDraft)

SmtpSection ==
  Component({Shows(<<"smtp-settings">>, "getSmtpSettings")},
            {Saves("updateSmtpSettings", {<<"smtp-settings">>})}, Hydrated(<<"smtp-settings">>))

SmtpTest == Component({}, {Does("testSmtp", {})}, NoDraft)

UpdatesPage ==
  Component({Polls(<<"update-status">>, "getUpdateStatus")},
            {Does("triggerUpdate", {<<"update-status">>}),
             PutsAnswer(Does("getUpdateStatus", {}), {<<"update-status">>})}, NoDraft)

SystemHealthPage ==
  View({Polls(<<"host-health">>, "fetchHostHealth"), Polls(<<"host-history">>, "fetchHostHistory")})

-----------------------------------------------------------------------------
Frame == {DashboardLayout, NotificationBell, UpdateBanner}

AdminViews ==
  {{UsersPage, UserForm},
   {UserDetailPage, ResetPasswordCard, AssignForm, RiskReportCard},
   {RolesPage, RoleForm}, {AccessRequestsPage, DirectorySection, RequestAccessButton},
   {AccessRequestDetailPage, DecideCard}, {AuditLogPage}, {AuditSessionPage},
   {UserRolesView}, {UserAccessView}, {UserActivityView}, {DeviceActivityView},
   {SecretAccessView}, {ChangeView},
   {ProfilePage, IdentitySection, PasswordSection, TotpSection, OtpLoginSection},
   {AuthorizationSection}, {SystemBackupSection}, {OrgInfoSection}, {SmsSection, SmsTest},
   {SmtpSection, SmtpTest}, {UpdatesPage}, {SystemHealthPage}}
=============================================================================
