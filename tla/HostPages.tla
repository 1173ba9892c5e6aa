------------------------------ MODULE HostPages ------------------------------
(***************************************************************************)
(* The pages of one server: the ufw firewall, accounts, packages, storage, *)
(* processes and jobs.  One definition per React component, as in          *)
(* RouterPages.                                                            *)
(***************************************************************************)
EXTENDS WebPage

UfwKeys == {<<"ufw">>, <<"ufw-guards">>}

UfwQueries ==
  {Shows(<<"ufw">>, "getUfwStatus"), PollsWhile(<<"ufw-guards">>, "listPendingGuards")}

\* Mutant: an error only shows its message.
UfwChangeSilentError(call) == Does(call, UfwKeys)

\* A change that failed may have been applied and undone: the list is read
\* again after an error, too.
UfwChange(call) == AlsoOnError(Does(call, UfwKeys), UfwKeys)

UfwFirewall == Component(UfwQueries, {UfwChange("setUfwEnabled")}, NoDraft)

UfwRuleTable ==
  Component(UfwQueries,
            {UfwChange("deleteUfwRule"), UfwChange("moveUfwRule"), UfwChange("disableUfwRule")},
            NoDraft)

DisabledRules == Component(UfwQueries, {UfwChange("enableUfwRule")}, NoDraft)

UfwRuleForm ==
  Component({}, {Saves("createUfwRule", UfwKeys), Saves("editUfwRule", UfwKeys)},
            Opened(<<"ufw">>))

PendingGuard ==
  Component(UfwQueries, {Does("confirmGuard", UfwKeys), Does("rollbackGuard", UfwKeys)},
            NoDraft)

\* After an error only the rules are read again, not the pending guards.
EnableDialog ==
  Component({Shows(<<"ufw-preflight">>, "getEnablePreflight")},
            {AlsoOnError(Does("setUfwEnabled", UfwKeys), {<<"ufw">>})}, NoDraft)

-----------------------------------------------------------------------------
AccountKeys == {<<"device-users">>, <<"device-groups">>}

AccountQueries ==
  {Shows(<<"device-users">>, "listDeviceUsers"), Shows(<<"device-groups">>, "listDeviceGroups")}

LinuxAccounts ==
  Component(AccountQueries,
            {Does("setDeviceUserDisabled", AccountKeys), Does("deleteDeviceUser", AccountKeys)},
            NoDraft)

CreateUserForm == Component({}, {Saves("createDeviceUser", AccountKeys)}, Blank)

GroupEditor ==
  Component({}, {Saves("setDeviceUserGroups", AccountKeys)}, Opened(<<"device-users">>))

PasswordButton == Component({}, {Does("resetDeviceUserPassword", AccountKeys)}, Blank)

GroupsSection ==
  Component(AccountQueries,
            {Saves("createDeviceGroup", AccountKeys), Repeats("deleteDeviceGroup", AccountKeys)},
            Blank)

-----------------------------------------------------------------------------
\* Only the list of runs is refreshed; it is polled while a run is active.
PackagesPage ==
  Component({Shows(<<"packages">>, "getPackages"),
             PollsWhile(<<"package-runs">>, "listPackageRuns")},
            {Does("refreshPackages", {<<"package-runs">>}),
             Does("upgradePackages", {<<"package-runs">>})}, NoDraft)

RunHistory == View({PollsWhile(<<"package-runs">>, "listPackageRuns")})

StoragePage == View({Shows(<<"disks">>, "getDisks")})

DirNode == View({Shows(<<"disk-tree">>, "getDiskTree")})

ProcessesPage == View({PollsWhile(<<"processes">>, "getProcesses")})

ScheduledPage == View({Shows(<<"scheduled-jobs">>, "getScheduledJobs")})

LinuxAddresses == View({Shows(<<"interface-configs">>, "getInterfaceConfigs")})

-----------------------------------------------------------------------------
HostViews ==
  {{UfwFirewall, UfwRuleTable, DisabledRules, UfwRuleForm, PendingGuard, EnableDialog},
   {LinuxAccounts, CreateUserForm, GroupEditor, PasswordButton, GroupsSection},
   {PackagesPage, RunHistory}, {StoragePage, DirNode}, {ProcessesPage}, {ScheduledPage},
   {LinuxAddresses}}
=============================================================================
