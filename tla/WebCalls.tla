------------------------------ MODULE WebCalls ------------------------------
(***************************************************************************)
(* The calls the browser can make, one definition per file (or part of a   *)
(* file) of frontend/src/lib.  Every function there is one HTTP request;   *)
(* what the pages depend on is which part of the server's state it reads   *)
(* or changes, so that is what a call is here.  Bodies, URLs and types are *)
(* left out.  A part of the state is named by a string; the ones that      *)
(* belong to a device stand for that part of the device on the screen.     *)
(*                                                                         *)
(* Counters the server derives are counted as reads: a tenant shows how    *)
(* many sites and devices it has, a site how many devices and the name of  *)
(* its tenant, a user and a role how many assignments.  Deleting a tenant  *)
(* or a site deletes what is under it.  The audit log, which every call    *)
(* writes, is not counted as something a call changes.                     *)
(***************************************************************************)
EXTENDS TLC

Reads(parts) == [reads |-> parts, writes |-> {}, makes |-> FALSE]

\* Doing it twice is the same as doing it once.
Writes(parts) == [reads |-> {}, writes |-> parts, makes |-> FALSE]

\* Doing it twice makes two of them, or starts a second run.
Makes(parts) == [reads |-> {}, writes |-> parts, makes |-> TRUE]

-----------------------------------------------------------------------------
(* Organisation, people and access *)

TenantCalls ==
  [listTenants  |-> Reads({"tenant", "site", "placement"}),
   getTenant    |-> Reads({"tenant", "site", "placement"}),
   createTenant |-> Makes({"tenant"}),
   updateTenant |-> Writes({"tenant"}),
   deleteTenant |-> Writes({"tenant", "site", "device", "placement"})]

SiteCalls ==
  [listSites  |-> Reads({"site", "placement", "tenant"}),
   getSite    |-> Reads({"site", "placement", "tenant"}),
   createSite |-> Makes({"site"}),
   updateSite |-> Writes({"site"}),
   deleteSite |-> Writes({"site", "device", "placement"})]

UserCalls ==
  [listUsers             |-> Reads({"user", "assignment"}),
   createUser            |-> Makes({"user", "assignment"}),
   updateUser            |-> Writes({"user"}),
   resetUserPassword     |-> Writes({"user password"}),
   listAssignments       |-> Reads({"assignment"}),
   createAssignment      |-> Makes({"assignment"}),
   deleteAssignment      |-> Writes({"assignment"}),
   bulkCreateAssignments |-> Makes({"assignment"})]

RoleCalls ==
  [listSections |-> Reads({}),
   listRoles    |-> Reads({"role", "assignment"}),
   createRole   |-> Makes({"role"}),
   updateRole   |-> Writes({"role"}),
   deleteRole   |-> Writes({"role", "assignment"})]

\* A decision also makes the assignments and tells the requester.
AccessRequestCalls ==
  [createAccessRequest  |-> Makes({"request", "notification"}),
   listAccessRequests   |-> Reads({"request"}),
   getAccessRequest     |-> Reads({"request"}),
   approveAccessRequest |-> Makes({"request", "assignment"}),
   denyAccessRequest    |-> Writes({"request"}),
   cancelAccessRequest  |-> Writes({"request"}),
   fetchDirectory       |-> Reads({"assignment", "tenant", "site", "placement", "request"})]

AccessCalls ==
  [fetchTenantAccess  |-> Reads({"assignment", "user"}),
   fetchSiteAccess    |-> Reads({"assignment", "user"}),
   fetchDeviceAccess  |-> Reads({"assignment", "user"}),
   fetchUserAccessMap |-> Reads({"assignment", "role"})]

RiskReportCalls == [fetchRiskReport |-> Reads({"risk"})]

NotificationCalls ==
  [fetchNotifications    |-> Reads({"notification"}),
   markNotificationsRead |-> Writes({"notification"})]

\* The signed-in user's own record; signing in and out is module BrowserSession.
ProfileCalls ==
  [fetchMe           |-> Reads({"me"}),
   updateProfile     |-> Writes({"me"}),
   changePassword    |-> Writes({"me"}),
   enrollTotpBegin   |-> Makes({"totp secret"}),
   enrollTotpConfirm |-> Writes({"me"}),
   disableTotp       |-> Writes({"me"})]

AuditCalls ==
  [queryAudit         |-> Reads({"session"}),
   getAuditSession    |-> Reads({"session"}),
   revokeAuditSession |-> Writes({"session"})]

EventCalls ==
  [listEvents           |-> Reads({"event"}),
   eventsSummary        |-> Reads({"event"}),
   eventsPerSiteSummary |-> Reads({"event"}),
   acknowledgeEvents    |-> Writes({"event"}),
   clearAllEvents       |-> Writes({"event"})]

ActivityReportCalls ==
  [userActivityReport   |-> Reads({"audit"}),
   deviceActivityReport |-> Reads({"audit"}),
   secretAccessReport   |-> Reads({"audit"}),
   changeReport         |-> Reads({"audit"})]

RoleReportCalls == [userRolesReport |-> Reads({"user", "role", "assignment"})]

-----------------------------------------------------------------------------
(* Settings of the installation *)

\* A test message leaves its outcome in the SMS settings.
MessagingSettingsCalls ==
  [getSmtpSettings    |-> Reads({"smtp"}),
   updateSmtpSettings |-> Writes({"smtp"}),
   testSmtp           |-> Makes({"message"}),
   getSmsSettings     |-> Reads({"sms"}),
   getSmsPresets      |-> Reads({}),
   updateSmsSettings  |-> Writes({"sms"}),
   testSms            |-> Makes({"message", "sms"})]

OrgSettingsCalls ==
  [getOrgInfo         |-> Reads({"org"}),
   updateOrgInfo      |-> Writes({"org"}),
   listSystemBackups  |-> Reads({"system backup"}),
   createSystemBackup |-> Makes({"system backup"}),
   deleteSystemBackup |-> Writes({"system backup"}),
   getAuthSettings    |-> Reads({"auth settings"}),
   updateAuthSettings |-> Writes({"auth settings"})]

UpdateCalls ==
  [getUpdateStatus |-> Reads({"update"}),
   triggerUpdate   |-> Makes({"update"})]

HostHealthCalls ==
  [fetchHostHealth  |-> Reads({"host"}),
   fetchHostHistory |-> Reads({"host"})]

-----------------------------------------------------------------------------
(* Devices *)

\* A test writes status, versions and the pinned key of the device.  Moving a
\* device is updateDevice with another site; "placement" is where devices are.
DeviceCalls ==
  [listDevices          |-> Reads({"device"}),
   getDevice            |-> Reads({"device"}),
   createDevice         |-> Makes({"device", "placement"}),
   updateDevice         |-> Writes({"device"}),
   updateDeviceSite     |-> Writes({"device", "placement"}),
   deleteDevice         |-> Writes({"device", "placement"}),
   testDeviceConnection |-> Writes({"device"}),
   rebootDevice         |-> Makes({}),
   getOnboardingScript  |-> Reads({}),
   rotateDeviceSshKey   |-> Makes({"device"})]

DriverCalls == [listDrivers |-> Reads({})]

\* A check stores what it found on the device's row.
FirmwareCalls ==
  [getFleetFirmwareSummary  |-> Reads({"device"}),
   getDeviceFirmware        |-> Reads({"firmware"}),
   checkDeviceFirmware      |-> Writes({"firmware", "device"}),
   triggerFirmwareUpgrade   |-> Makes({"firmware", "upgrade", "device"}),
   getFirmwareUpgradeStatus |-> Reads({"upgrade"}),
   getAutoUpgradePolicy     |-> Reads({"policy"}),
   setAutoUpgradePolicy     |-> Writes({"policy"})]

BackupCalls ==
  [listDeviceBackups  |-> Reads({"backup"}),
   triggerBackup      |-> Makes({"backup"}),
   restoreBackup      |-> Makes({})]

\* Each bulk call works through many devices and answers with a list.
BulkCalls ==
  [bulkResetDeviceUserPassword |-> Writes({"device user password"}),
   bulkAddressListAdd          |-> Makes({"address list"}),
   bulkFirewallFilterAdd       |-> Makes({"filter"}),
   bulkZabbixSnmpSetup         |-> Makes({"snmp", "community", "filter"})]

IpServiceCalls ==
  [listIpServices  |-> Reads({"service"}),
   updateIpService |-> Writes({"service"})]

DeviceUserCalls ==
  [listDeviceUsers         |-> Reads({"device user", "device group"}),
   listDeviceGroups        |-> Reads({"device group", "device user"}),
   createDeviceUser        |-> Makes({"device user"}),
   deleteDeviceUser        |-> Writes({"device user"}),
   setDeviceUserGroups     |-> Writes({"device user"}),
   createDeviceGroup       |-> Makes({"device group"}),
   deleteDeviceGroup       |-> Writes({"device group"}),
   resetDeviceUserPassword |-> Writes({"device user password"}),
   setDeviceUserDisabled   |-> Writes({"device user"})]

-----------------------------------------------------------------------------
(* Routers *)

DhcpPoolCalls ==
  [listDhcpPools  |-> Reads({"dhcp pool"}),
   createDhcpPool |-> Makes({"dhcp pool"}),
   updateDhcpPool |-> Writes({"dhcp pool"}),
   deleteDhcpPool |-> Writes({"dhcp pool"})]

DhcpServerCalls ==
  [listDhcpServers  |-> Reads({"dhcp server"}),
   createDhcpServer |-> Makes({"dhcp server"}),
   updateDhcpServer |-> Writes({"dhcp server"}),
   deleteDhcpServer |-> Writes({"dhcp server"})]

DhcpNetworkCalls ==
  [listDhcpNetworks  |-> Reads({"dhcp network"}),
   createDhcpNetwork |-> Makes({"dhcp network"}),
   updateDhcpNetwork |-> Writes({"dhcp network"}),
   deleteDhcpNetwork |-> Writes({"dhcp network"})]

DhcpLeaseCalls ==
  [listDhcpLeases  |-> Reads({"lease"}),
   makeLeaseStatic |-> Writes({"lease"}),
   setLeaseComment |-> Writes({"lease"}),
   deleteLease     |-> Writes({"lease"})]

FilterCalls ==
  [listFilterRules         |-> Reads({"filter"}),
   createFilterRule        |-> Makes({"filter"}),
   setFilterRuleDisabled   |-> Writes({"filter"}),
   updateFilterRule        |-> Writes({"filter"}),
   resetFilterRuleCounters |-> Writes({"filter"}),
   deleteFilterRule        |-> Writes({"filter"}),
   moveFilterRule          |-> Writes({"filter"})]

NatCalls ==
  [listNatRules         |-> Reads({"nat"}),
   createNatRule        |-> Makes({"nat"}),
   updateNatRule        |-> Writes({"nat"}),
   deleteNatRule        |-> Writes({"nat"}),
   resetNatRuleCounters |-> Writes({"nat"}),
   listLogs             |-> Reads({"log"})]

\* A route, a neighbour, an ARP entry: what the router itself keeps.
RouteCalls ==
  [resetInterfaceCounters |-> Writes({"interface"}),
   listRoutes             |-> Reads({"route"}),
   createRoute            |-> Makes({"route"}),
   deleteRoute            |-> Writes({"route"}),
   listArp                |-> Reads({"arp"}),
   listNeighbors          |-> Reads({"neighbour", "discovery"}),
   getNeighborDiscovery   |-> Reads({"discovery"}),
   setNeighborDiscovery   |-> Writes({"discovery"})]

\* A VLAN is an interface too.
InterfaceCalls ==
  [listBridgeHosts          |-> Reads({"bridge host"}),
   listInterfaces           |-> Reads({"interface"}),
   listInterfaceLists       |-> Reads({"interface list"}),
   listInterfaceListMembers |-> Reads({"interface list"}),
   listVlans                |-> Reads({"vlan"}),
   createVlan               |-> Makes({"vlan", "interface"}),
   deleteVlan               |-> Writes({"vlan", "interface"})]

QueueCalls ==
  [listSimpleQueues         |-> Reads({"queue"}),
   createSimpleQueue        |-> Makes({"queue"}),
   deleteSimpleQueue        |-> Writes({"queue"}),
   resetSimpleQueueCounters |-> Writes({"queue"})]

ClockCalls ==
  [getNtp            |-> Reads({"ntp"}),
   updateNtp         |-> Writes({"ntp"}),
   getNtpServer      |-> Reads({"ntp server"}),
   updateNtpServer   |-> Writes({"ntp server"}),
   getDeviceClock    |-> Reads({"clock"}),
   updateDeviceClock |-> Writes({"clock"})]

SnmpCalls ==
  [getSnmp             |-> Reads({"snmp"}),
   updateSnmp          |-> Writes({"snmp"}),
   listSnmpCommunities |-> Reads({"community"}),
   createSnmpCommunity |-> Makes({"community"}),
   deleteSnmpCommunity |-> Writes({"community"}),
   updateSnmpCommunity |-> Writes({"community"})]

LoggingRuleCalls ==
  [listLoggingRules  |-> Reads({"logging rule"}),
   createLoggingRule |-> Makes({"logging rule"}),
   updateLoggingRule |-> Writes({"logging rule"}),
   deleteLoggingRule |-> Writes({"logging rule"})]

LoggingActionCalls ==
  [listLoggingActions  |-> Reads({"logging action"}),
   createLoggingAction |-> Makes({"logging action"}),
   deleteLoggingAction |-> Writes({"logging action"})]

PppCalls ==
  [listPppSecrets         |-> Reads({"ppp"}),
   createPppSecret        |-> Makes({"ppp"}),
   resetPppSecretPassword |-> Writes({"ppp password"}),
   deletePppSecret        |-> Writes({"ppp"}),
   revealPppSecret        |-> Reads({})]

\* Deleting an interface orphans its peers; restricting a peer writes filter rules.
WireguardCalls ==
  [listWgInterfaces          |-> Reads({"wg interface"}),
   createWgInterface         |-> Makes({"wg interface", "interface"}),
   deleteWgInterface         |-> Writes({"wg interface", "interface"}),
   listWgPeers               |-> Reads({"wg peer"}),
   createWgPeer              |-> Makes({"wg peer"}),
   deleteWgPeer              |-> Writes({"wg peer"}),
   revealWgPeerKeys          |-> Reads({}),
   createIpAddress           |-> Makes({"address"}),
   listWgEndpointSuggestions |-> Reads({"address"}),
   listWgLanSubnets          |-> Reads({"address"}),
   restrictWgPeer            |-> Makes({"filter"}),
   downloadWgClientConfig    |-> Reads({})]

SiteToSiteCalls ==
  [createSiteToSite |->
     Makes({"wg interface", "wg peer", "interface", "address", "filter", "route"})]

-----------------------------------------------------------------------------
(* Servers *)

ResourceCalls ==
  [getResources |-> Reads({"resources"}),
   getDisks     |-> Reads({"disk"})]

LinuxCalls ==
  [getInterfaceConfigs |-> Reads({"interface"}),
   getDiskTree         |-> Reads({"disk"}),
   getProcesses        |-> Reads({"process"}),
   syncNtpNow          |-> Writes({"ntp", "clock"}),
   getScheduledJobs    |-> Reads({"job"})]

\* The run is recorded at once; what is installed changes when it ends.
PackageCalls ==
  [getPackages     |-> Reads({"package"}),
   listPackageRuns |-> Reads({"package run"}),
   refreshPackages |-> Makes({"package run", "package"}),
   upgradePackages |-> Makes({"package run", "package"}),
   refreshAllHosts |-> Makes({"package", "device"})]

UfwRuleCalls ==
  [getUfwStatus   |-> Reads({"ufw"}),
   createUfwRule  |-> Makes({"ufw", "guard"}),
   deleteUfwRule  |-> Writes({"ufw", "guard"}),
   editUfwRule    |-> Makes({"ufw", "guard"}),
   moveUfwRule    |-> Writes({"ufw", "guard"}),
   disableUfwRule |-> Writes({"ufw", "guard"}),
   enableUfwRule  |-> Makes({"ufw", "guard"})]

UfwGuardCalls ==
  [getEnablePreflight |-> Reads({"ufw"}),
   setUfwEnabled      |-> Writes({"ufw", "guard"}),
   listPendingGuards  |-> Reads({"guard"}),
   confirmGuard       |-> Writes({"guard"}),
   rollbackGuard      |-> Writes({"ufw", "guard"})]

-----------------------------------------------------------------------------
Calls ==
  TenantCalls @@ SiteCalls @@ UserCalls @@ RoleCalls @@ AccessRequestCalls
  @@ AccessCalls @@ RiskReportCalls @@ NotificationCalls @@ ProfileCalls
  @@ AuditCalls @@ EventCalls @@ ActivityReportCalls @@ RoleReportCalls
  @@ MessagingSettingsCalls @@ OrgSettingsCalls @@ UpdateCalls @@ HostHealthCalls
  @@ DeviceCalls @@ DriverCalls @@ FirmwareCalls @@ BackupCalls @@ BulkCalls
  @@ IpServiceCalls @@ DeviceUserCalls @@ DhcpPoolCalls @@ DhcpServerCalls
  @@ DhcpNetworkCalls @@ DhcpLeaseCalls @@ FilterCalls @@ NatCalls @@ RouteCalls
  @@ InterfaceCalls @@ QueueCalls @@ ClockCalls @@ SnmpCalls @@ LoggingRuleCalls
  @@ LoggingActionCalls @@ PppCalls @@ WireguardCalls @@ SiteToSiteCalls
  @@ ResourceCalls @@ LinuxCalls @@ PackageCalls @@ UfwRuleCalls @@ UfwGuardCalls
=============================================================================
