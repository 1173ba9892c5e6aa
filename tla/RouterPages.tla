----------------------------- MODULE RouterPages -----------------------------
(***************************************************************************)
(* The pages of one router (app/dashboard/devices/[id]): system, DHCP,     *)
(* firewall, network, VPN, queues, services, logs, backups and users.  One *)
(* definition per React component.  RouterViews says which components are  *)
(* on the screen together.                                                 *)
(***************************************************************************)
EXTENDS WebPage

-----------------------------------------------------------------------------
(* system: one tab at a time *)

SystemPage == View({Shows(<<"device">>, "getDevice"), Shows(<<"drivers">>, "listDrivers")})

RebootSection ==
  Component({Shows(<<"device">>, "getDevice")},
            {Does("rebootDevice", {<<"device">>})}, NoDraft)

\* "Sync now" refreshes the settings that the form below it is filled from.
NtpSection ==
  Component({Shows(<<"ntp">>, "getNtp")},
            {Does("syncNtpNow", {<<"ntp">>}), Saves("updateNtp", {<<"ntp">>})},
            Hydrated(<<"ntp">>))

SnmpSection ==
  Component({Shows(<<"snmp">>, "getSnmp")},
            {Saves("updateSnmp", {<<"snmp">>})}, Hydrated(<<"snmp">>))

SnmpCommunitiesSection ==
  Component({Shows(<<"snmp-communities">>, "listSnmpCommunities")},
            {Repeats("deleteSnmpCommunity", {<<"snmp-communities">>})}, NoDraft)

CommunityRow ==
  Component({}, {Saves("updateSnmpCommunity", {<<"snmp-communities">>})},
            Opened(<<"snmp-communities">>))

CommunityForm ==
  Component({}, {Saves("createSnmpCommunity", {<<"snmp-communities">>})}, Blank)

TimeZoneSection ==
  Component({Shows(<<"clock">>, "getDeviceClock")},
            {Saves("updateDeviceClock", {<<"clock">>})}, Untouched(<<"clock">>))

ClockCard == View({Polls(<<"clock">>, "getDeviceClock")})

NtpServerSection ==
  Component({Shows(<<"ntp-server">>, "getNtpServer")},
            {Saves("updateNtpServer", {<<"ntp-server">>})}, Hydrated(<<"ntp-server">>))

LoggingKeys == {<<"logging-rules">>, <<"logging-actions">>}

LoggingQueries ==
  {Shows(<<"logging-rules">>, "listLoggingRules"),
   Shows(<<"logging-actions">>, "listLoggingActions")}

LoggingTemplates ==
  Component(LoggingQueries, {Does("createLoggingRule", LoggingKeys)}, NoDraft)

LoggingRules ==
  Component(LoggingQueries,
            {Repeats("updateLoggingRule", LoggingKeys),
             Repeats("deleteLoggingRule", LoggingKeys)}, NoDraft)

LoggingActions ==
  Component(LoggingQueries, {Repeats("deleteLoggingAction", LoggingKeys)}, NoDraft)

AddRuleForm == Component({}, {Saves("createLoggingRule", LoggingKeys)}, Blank)

AddActionForm == Component({}, {Saves("createLoggingAction", LoggingKeys)}, Blank)

-----------------------------------------------------------------------------
(* dhcp: one tab at a time *)

LeasesPanel ==
  Component({Shows(<<"dhcp-leases">>, "listDhcpLeases")},
            {Repeats("makeLeaseStatic", {<<"dhcp-leases">>}),
             Repeats("deleteLease", {<<"dhcp-leases">>})}, NoDraft)

\* The comment is copied into the field once, when the row is first rendered.
LeaseRow ==
  Component({}, {[Saves("setLeaseComment", {<<"dhcp-leases">>}) EXCEPT !.locked = FALSE]},
            Mounted(<<"dhcp-leases">>))

ServersPanel ==
  Component({Shows(<<"dhcp-servers">>, "listDhcpServers"),
             Shows(<<"dhcp-pools">>, "listDhcpPools"),
             Shows(<<"interfaces">>, "listInterfaces")},
            {Repeats("deleteDhcpServer", {<<"dhcp-servers">>})}, NoDraft)

ServerRow ==
  Component({}, {Saves("updateDhcpServer", {<<"dhcp-servers">>})}, Opened(<<"dhcp-servers">>))

ServerForm == Component({}, {Saves("createDhcpServer", {<<"dhcp-servers">>})}, Blank)

NetworksPanel ==
  Component({Shows(<<"dhcp-networks">>, "listDhcpNetworks")},
            {Repeats("deleteDhcpNetwork", {<<"dhcp-networks">>})}, NoDraft)

NetworkForm == Component({}, {Saves("createDhcpNetwork", {<<"dhcp-networks">>})}, Blank)

PoolsPanel ==
  Component({Shows(<<"dhcp-pools">>, "listDhcpPools")},
            {Repeats("deleteDhcpPool", {<<"dhcp-pools">>})}, NoDraft)

\* Mutant: the fields of a pool are copied only when its row appears.
PoolRowCopiedOnce ==
  Component({}, {Saves("updateDhcpPool", {<<"dhcp-pools">>})}, Mounted(<<"dhcp-pools">>))

PoolRow ==
  Component({}, {Saves("updateDhcpPool", {<<"dhcp-pools">>})}, Opened(<<"dhcp-pools">>))

PoolForm == Component({}, {Saves("createDhcpPool", {<<"dhcp-pools">>})}, Blank)

-----------------------------------------------------------------------------
(* firewall: filter or NAT *)

FilterTable ==
  Component({Shows(<<"device">>, "getDevice"), Shows(<<"fw-filter">>, "listFilterRules")},
            {Repeats("setFilterRuleDisabled", {<<"fw-filter">>}),
             Repeats("deleteFilterRule", {<<"fw-filter">>}),
             Repeats("updateFilterRule", {<<"fw-filter">>}),
             Repeats("resetFilterRuleCounters", {<<"fw-filter">>}),
             Does("moveFilterRule", {<<"fw-filter">>})}, NoDraft)

FilterRuleForm == Component({}, {Saves("createFilterRule", {<<"fw-filter">>})}, Blank)

NatPanel ==
  Component({Shows(<<"fw-nat">>, "listNatRules")},
            {Repeats("updateNatRule", {<<"fw-nat">>}),
             Repeats("resetNatRuleCounters", {<<"fw-nat">>}),
             Repeats("deleteNatRule", {<<"fw-nat">>})}, NoDraft)

NatRuleForm == Component({}, {Saves("createNatRule", {<<"fw-nat">>})}, Blank)

-----------------------------------------------------------------------------
(* network: one tab at a time *)

NetworkPage == View({Shows(<<"device">>, "getDevice"), Shows(<<"drivers">>, "listDrivers")})

NeighborsTab ==
  Component({Polls(<<"neighbors">>, "listNeighbors"), Shows(<<"device">>, "getDevice"),
             Shows(<<"neighbor-discovery">>, "getNeighborDiscovery")},
            {Does("setNeighborDiscovery", {<<"neighbor-discovery">>, <<"neighbors">>})},
            NoDraft)

InterfacesTab ==
  Component({Shows(<<"interfaces">>, "listInterfaces"),
             Shows(<<"interface-list-members">>, "listInterfaceListMembers")},
            {Does("resetInterfaceCounters", {<<"interfaces">>})}, NoDraft)

InterfaceListsTab ==
  View({Shows(<<"interface-lists">>, "listInterfaceLists"),
        Shows(<<"interface-list-members">>, "listInterfaceListMembers")})

RoutesTab ==
  Component({Shows(<<"routes">>, "listRoutes")},
            {Repeats("deleteRoute", {<<"routes">>})}, NoDraft)

\* Mutant: the list of routes is not refreshed.
RouteFormWithoutRefresh == Component({}, {Saves("createRoute", {})}, Blank)

RouteForm == Component({}, {Saves("createRoute", {<<"routes">>})}, Blank)

\* Mutant: deleting refreshes the interfaces only.
VlansTabWrongKey ==
  Component({Shows(<<"vlans">>, "listVlans"), Shows(<<"interfaces">>, "listInterfaces")},
            {Repeats("deleteVlan", {<<"interfaces">>})}, NoDraft)

VlansTab ==
  Component({Shows(<<"vlans">>, "listVlans"), Shows(<<"interfaces">>, "listInterfaces")},
            {Repeats("deleteVlan", {<<"vlans">>})}, NoDraft)

VlanForm == Component({}, {Saves("createVlan", {<<"vlans">>})}, Blank)

ArpTab == View({Shows(<<"arp">>, "listArp")})

BridgeTab == View({Shows(<<"bridge-hosts">>, "listBridgeHosts")})

-----------------------------------------------------------------------------
(* vpn: PPP secrets and WireGuard *)

DeviceVpnPage ==
  Component({Shows(<<"ppp-secrets">>, "listPppSecrets")},
            {Repeats("deletePppSecret", {<<"ppp-secrets">>})}, NoDraft)

PppSecretForm == Component({}, {Saves("createPppSecret", {<<"ppp-secrets">>})}, Blank)

RevealModal == Component({}, {Does("revealPppSecret", {})}, Blank)

ResetModal == Component({}, {Does("resetPppSecretPassword", {})}, Blank)

WireguardPage ==
  Component({Shows(<<"wg-interfaces">>, "listWgInterfaces"),
             Shows(<<"wg-peers">>, "listWgPeers")},
            {Repeats("deleteWgInterface", {<<"wg-interfaces">>}),
             Repeats("deleteWgPeer", {<<"wg-peers">>})}, NoDraft)

InterfaceForm == Component({}, {Saves("createWgInterface", {<<"wg-interfaces">>})}, Blank)

PeerForm == Component({}, {Saves("createWgPeer", {<<"wg-peers">>})}, Blank)

Suggestions ==
  {Shows(<<"wg-endpoint-suggestions">>, "listWgEndpointSuggestions"),
   Shows(<<"wg-lan-subnets">>, "listWgLanSubnets")}

ConfigModal == Component(Suggestions, {Does("downloadWgClientConfig", {})}, Blank)

RestrictModal ==
  Component({Shows(<<"wg-lan-subnets">>, "listWgLanSubnets")},
            {Does("restrictWgPeer", {})}, Blank)

\* The wizard makes the interface, then a filter rule for its port, then moves
\* that rule to the top; only the first of these must succeed.  It reads the
\* interfaces again and puts them into the cache.
InterfaceStep ==
  Component({Shows(<<"wg-interfaces">>, "listWgInterfaces")},
            {Lenient(InTurn(<<"createWgInterface", "createFilterRule", "moveFilterRule",
                              "listWgInterfaces">>,
                            PutsAnswer(Saves("createWgInterface", {}), {<<"wg-interfaces">>})))},
            Blank)

AddressStep == Component({}, {Saves("createIpAddress", {})}, Blank)

\* The peer is made first; the file with its key is a second call.
PeersStep ==
  Component(Suggestions,
            {InTurn(<<"createWgPeer", "downloadWgClientConfig">>, Saves("createWgPeer", {}))},
            Blank)

-----------------------------------------------------------------------------
(* the other pages *)

QueuesPage ==
  Component({Shows(<<"queues">>, "listSimpleQueues")},
            {Repeats("deleteSimpleQueue", {<<"queues">>}),
             Repeats("resetSimpleQueueCounters", {<<"queues">>})}, NoDraft)

\* Mutant: the button stays enabled while the call is pending.
QueueFormUnlocked ==
  Component({}, {[Saves("createSimpleQueue", {<<"queues">>}) EXCEPT !.locked = FALSE]}, Blank)

QueueForm == Component({}, {Saves("createSimpleQueue", {<<"queues">>})}, Blank)

DeviceServicesPage == View({Shows(<<"device-services">>, "listIpServices")})

\* Switching a service on or off is a call of its own; port and address are
\* two fields with a call each, and Enter sends them while one is pending.
ServiceRow ==
  Component({}, {Does("updateIpService", {<<"device-services">>}),
                 [Saves("updateIpService", {<<"device-services">>}) EXCEPT !.locked = FALSE]},
            ByField(<<"device-services">>))

DeviceLogsPage == View({PollsWhile(<<"device-logs">>, "listLogs")})

BackupsPage ==
  Component({Shows(<<"backups">>, "listDeviceBackups")},
            {Does("triggerBackup", {<<"backups">>}), Does("restoreBackup", {})}, NoDraft)

DeviceSystemUsersPage ==
  Component({Shows(<<"device">>, "getDevice"), Shows(<<"device-users">>, "listDeviceUsers")},
            {Repeats("setDeviceUserDisabled", {<<"device-users">>})}, NoDraft)

PasswordResetModal == Component({}, {Does("resetDeviceUserPassword", {})}, Blank)

-----------------------------------------------------------------------------
RouterViews ==
  {{SystemPage, RebootSection}, {SystemPage, NtpSection, NtpServerSection},
   {SystemPage, SnmpSection, SnmpCommunitiesSection, CommunityRow, CommunityForm},
   {SystemPage, ClockCard, TimeZoneSection},
   {SystemPage, LoggingTemplates, LoggingRules, LoggingActions, AddRuleForm, AddActionForm},
   {LeasesPanel, LeaseRow}, {ServersPanel, ServerRow, ServerForm},
   {NetworksPanel, NetworkForm}, {PoolsPanel, PoolRow, PoolForm},
   {FilterTable, FilterRuleForm}, {FilterTable, NatPanel, NatRuleForm},
   {NetworkPage, NeighborsTab}, {NetworkPage, InterfacesTab},
   {NetworkPage, InterfaceListsTab}, {NetworkPage, RoutesTab, RouteForm},
   {NetworkPage, VlansTab, VlanForm}, {NetworkPage, ArpTab}, {NetworkPage, BridgeTab},
   {DeviceVpnPage, PppSecretForm, RevealModal, ResetModal},
   {WireguardPage, InterfaceForm, PeerForm, ConfigModal, RestrictModal},
   {InterfaceStep}, {AddressStep}, {PeersStep}, {QueuesPage, QueueForm},
   {DeviceServicesPage, ServiceRow}, {DeviceLogsPage}, {BackupsPage},
   {DeviceSystemUsersPage, PasswordResetModal}}
=============================================================================
