------------------------------ MODULE FleetPages ------------------------------
(***************************************************************************)
(* The pages about the fleet: tenants, sites, devices, the wizards, bulk   *)
(* work, events and the dashboard, and the frame of a device's pages.  One *)
(* definition per React component, as in RouterPages.                      *)
(***************************************************************************)
EXTENDS WebPage

TenantList  == Shows(<<"tenants">>, "listTenants")
SiteList    == Shows(<<"sites">>, "listSites")
DeviceList  == Shows(<<"devices">>, "listDevices")
Drivers     == Shows(<<"drivers">>, "listDrivers")
TenantSites == Shows(<<"sites", "of tenant">>, "listSites")
OneDevice   == Shows(<<"device">>, "getDevice")
OneSite     == Shows(<<"site">>, "getSite")

-----------------------------------------------------------------------------
(* tenants and sites *)

TenantsPage == View({TenantList})

TenantForm == Component({}, {Saves("createTenant", {<<"tenants">>})}, Blank)

\* Only the sites of this tenant are refreshed, not the list of all sites.
TenantDetailPage ==
  Component({Shows(<<"tenant">>, "getTenant"), TenantSites},
            {Leaves(Repeats("deleteTenant", {<<"tenants">>})),
             Repeats("deleteSite", {<<"sites", "of tenant">>, <<"tenant">>})}, NoDraft)

SiteForm ==
  Component({}, {Saves("createSite", {<<"sites", "of tenant">>, <<"tenant">>})}, Blank)

SitesPage == View({SiteList})

SiteDetailPage ==
  Component({OneSite, Shows(<<"devices", "of site">>, "listDevices")},
            {Leaves(Does("deleteSite", {<<"sites">>}))}, NoDraft)

SiteInfoCard ==
  Component({OneSite}, {Saves("updateSite", {<<"site">>, <<"sites">>})}, Opened(<<"site">>))

AccessPanel == View({Shows(<<"access">>, "fetchDeviceAccess")})

-----------------------------------------------------------------------------
(* devices *)

DevicesPage == View({DeviceList, SiteList, Drivers})

\* The list is refreshed when the panel with the onboarding script is closed.
DeviceForm ==
  Component({}, {OnClosing(Saves("createDevice", {<<"devices">>, <<"sites">>}))}, Blank)

OnboardingPanel == View({Shows(<<"onboarding-script">>, "getOnboardingScript")})

DeviceLayout == View({OneDevice, OneSite, Shows(<<"tenant">>, "getTenant"), Drivers})

DeviceDetailPage ==
  Component({OneDevice, OneSite, SiteList, Drivers},
            {Does("testDeviceConnection", {<<"device">>}),
             Does("rotateDeviceSshKey", {<<"device">>}),
             Leaves(Does("deleteDevice", {<<"devices">>}))}, NoDraft)

MoveSiteControl ==
  Component({SiteList},
            {Does("updateDeviceSite", {<<"device">>, <<"devices">>, <<"sites">>})}, NoDraft)

\* Mutant: the fields follow the device instead of being copied once.
EditDeviceModalFollows ==
  Component({}, {Saves("updateDevice", {<<"device">>, <<"devices">>})}, Hydrated(<<"device">>))

EditDeviceModal ==
  Component({}, {Saves("updateDevice", {<<"device">>, <<"devices">>})}, Opened(<<"device">>))

ResourcesCard == View({Polls(<<"resources">>, "getResources")})

FirmwareCard ==
  Component({Shows(<<"firmware">>, "getDeviceFirmware"),
             Shows(<<"firmware-upgrade-status">>, "getFirmwareUpgradeStatus"),
             Shows(<<"firmware-policy">>, "getAutoUpgradePolicy")},
            {Does("checkDeviceFirmware", {<<"firmware">>, <<"firmware-upgrade-status">>}),
             Does("triggerFirmwareUpgrade", {<<"firmware">>, <<"firmware-upgrade-status">>})},
            NoDraft)

PolicyForm ==
  Component({Shows(<<"firmware-policy">>, "getAutoUpgradePolicy")},
            {Saves("setAutoUpgradePolicy", {<<"firmware-policy">>})},
            Untouched(<<"firmware-policy">>))

RequestAccessButton ==
  Component({}, {Does("createAccessRequest", {<<"access-requests">>, <<"notifications">>})},
            Blank)

-----------------------------------------------------------------------------
(* the fleet and its wizards *)

\* One call after the other for each device; module FleetBatch has the pool.
FleetPage ==
  Component({TenantList, SiteList, DeviceList},
            {InTurn(<<"testDeviceConnection", "checkDeviceFirmware">>,
                    AlsoOnError(Does("checkDeviceFirmware", {<<"devices">>}), {<<"devices">>}))},
            NoDraft)

TenantStep == Component({TenantList}, {Saves("createTenant", {<<"tenants">>})}, Blank)

SiteStep ==
  Component({TenantSites},
            {Saves("createSite", {<<"sites", "of tenant">>, <<"sites">>})}, Blank)

\* The wizard's device is not refreshed into any list.
DeviceStep == Component({Drivers}, {Saves("createDevice", {})}, Blank)

OnboardingStep ==
  Component({Shows(<<"onboarding-script">>, "getOnboardingScript")},
            {Does("testDeviceConnection", {})}, NoDraft)

ServersPage ==
  Component({DeviceList, SiteList}, {Does("refreshAllHosts", {<<"devices">>})}, NoDraft)

S2SWizardPage ==
  Component({DeviceList, Shows(<<"wg-lan-subnets">>, "listWgLanSubnets"),
             Shows(<<"wg-endpoint-suggestions">>, "listWgEndpointSuggestions")},
            {Saves("createSiteToSite", {})}, Blank)

-----------------------------------------------------------------------------
(* bulk work: each card answers with a list of results and refreshes nothing *)

DevicePicker == View({DeviceList, SiteList})

BulkPasswordResetCard == Component({}, {Does("bulkResetDeviceUserPassword", {})}, Blank)

BulkAddressListCard == Component({}, {Does("bulkAddressListAdd", {})}, Blank)

BulkFirewallFilterCard == Component({}, {Does("bulkFirewallFilterAdd", {})}, Blank)

SnmpApplyStep == Component({}, {Does("bulkZabbixSnmpSetup", {})}, Blank)

SnmpDevicePicker == View({DeviceList, SiteList})

BulkFirmwareCheck ==
  Component({DeviceList, SiteList},
            {AlsoOnError(Does("checkDeviceFirmware", {<<"devices">>}), {<<"devices">>})},
            NoDraft)

\* Each device is checked again before it is upgraded.
BulkFirmwareUpgrade ==
  Component({DeviceList, SiteList},
            {InTurn(<<"checkDeviceFirmware", "triggerFirmwareUpgrade">>,
                    AlsoOnError(Does("triggerFirmwareUpgrade", {<<"devices">>}),
                                {<<"devices">>}))},
            NoDraft)

-----------------------------------------------------------------------------
(* events and the dashboard *)

EventsQuery ==
  View({Polls(<<"events">>, "listEvents"), Shows(<<"me">>, "fetchMe"),
        TenantList, SiteList, DeviceList})

EventsActions ==
  Component({}, {Does("acknowledgeEvents", {<<"events">>}),
                 Does("clearAllEvents", {<<"events">>})}, NoDraft)

DashboardPage ==
  View({SiteList, DeviceList, Shows(<<"firmware-summary">>, "getFleetFirmwareSummary"),
        Polls(<<"events-summary">>, "eventsSummary"),
        Polls(<<"events-per-site-summary">>, "eventsPerSiteSummary")})

-----------------------------------------------------------------------------
DeviceCards == {ResourcesCard, FirmwareCard, PolicyForm}

FleetViews ==
  {{TenantsPage, TenantForm}, {SitesPage},
   {TenantDetailPage, SiteForm, AccessPanel, RequestAccessButton},
   {SiteDetailPage, SiteInfoCard, AccessPanel, RequestAccessButton},
   {DevicesPage, DeviceForm, OnboardingPanel},
   {DeviceLayout, DeviceDetailPage, MoveSiteControl, EditDeviceModal, AccessPanel,
    RequestAccessButton} \union DeviceCards,
   {FleetPage}, {TenantStep}, {SiteStep}, {DeviceStep}, {OnboardingStep},
   {ServersPage}, {S2SWizardPage},
   {DevicePicker, BulkPasswordResetCard, BulkAddressListCard, BulkFirewallFilterCard},
   {SnmpDevicePicker}, {SnmpApplyStep}, {BulkFirmwareCheck, BulkFirmwareUpgrade},
   {EventsQuery, EventsActions}, {DashboardPage}}
=============================================================================
