SPECIFICATION ConsoleSpec
CONSTANTS
    Tenants = {t0, t1}  Everyone = t0  Questions = {q0, q1}  All = q0
    MaxCalls = 3  MaxActs = 2  MaxFaults = 1
    Routers = 1  MaxPolls = 1  MaxLoads = 1  Active = 1  Acknowledged = 1
    Records = {r1, r2}  NewRecord = new  MaxFormActs = 6
    adm = adm  ua = ua  ub = ub  ca = ca  cb = cb
    Users = {adm, ua, ub}  SuperAdmins = {adm}  Companies = {ca, cb}
    CompanyOf <- MCCompanyOf  Nobody = nobody  MaxSteps = 5
    Profiles = {p1, p2}  Factory = {p1}  NoProfile = noprofile
    MaxTrafficActs = 4  MaxRefusals = 1
    Upstreams = {u1, u2}  Preset = {u1}  Levels = {"blocked", "plain"}  Plain = "plain"
    Width = 8  MaxPastes = 2
    Hosts = {h1, h2}  HistoryLimit = 2  MaxToolActs = 5  MaxPings = 2
    Ids = {i1, i2}  Bgp = i1  Bgp2 = i2  Foreign = {f1}  Values = {v0, v1}  Default = v0
    Absent = absent  None = none  Corrupt = corrupt  MaxRequests = 2  MaxMockFaults = 1
    Licenses = {l1}  MaxLogins = 2  MaxPanelActs = 3  MaxPanelCalls = 2
    Alerts = {1, 2, 3}  FoundAlerts = {1, 3}  PageSizes = {1, 2}
    MaxBatches = 1  MaxLogActs = 2  MaxChanges = 1  MaxLost = 1
    Viewers = {1, 2}  Writers = {1, 2}  Buffer = 1  MaxEvents = 3
    own = own  peer = peer  Asns = {own, peer}  Malformed = malformed  AddressBits = 3
    Roas <- MCRoas  Routes <- MCRoutes  Askers = {a1, a2}  MaxQuestions = 2
INVARIANTS
    AnswersAreOnDisk QuietUseIsRight SectionShowsAView
    CallsSpeakForTheUser IdleFormsKeepTheirText QuietTrafficIsRight
    DiffIsOfTheNamedProfile OneLevelPerUpstream OutputFollowsItsCommand
    OneTimerWhileContinuous ConfirmedIsDone
    PagesShowTheList AckReachesTheRest NoSendOnClosedChannel OwnRoutesFollowRfc6811
PROPERTIES  PolledViewsCatchUp SpinnerStops BadgeSettles NobodyWaitsForSlowViewers
CHECK_DEADLOCK FALSE
