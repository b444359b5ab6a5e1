\* Each part behind the desk with two handlers in flight, one part at a time.
SPECIFICATION Spec
CONSTANTS
  Tasks = {t1, t2}
  Rooms = {r1}
  Requests = {q1, q2}
  Housekeepers = {h1}
  NoOne = NoOne
  NoTask = NoTask
  ManualTypes = {"maintenance"}
  PatchTargets = {"vacant_dirty", "out_of_order"}
  MaxHandlers = 5
  Reservations = {g1}
  Reviews = {v1}
  Clerks = {q1, q2}
  MaxDecisions = 2
  MaxRuns = 3
  Connections = {s}
  SiteMinder = {s}
  Dates = {1, 2, 3}
  TotalRooms = 2
  Buffer = 1
  MaxRetries = 2
  Pushers = {q1, q2}
  MaxStarts = 2
  Plans = {a, b}
  BaseAmount = 1000000
  Days = {1, 2}
  Adjustments <- TwoAdjustments
  Writers = {q1, q2}
  MaxWrites = 3
  Admins = {q1, q2}
  Countries = {"TR"}
  Presets = {"TR"}
  PresetRules = 2
  Providers = {"instapay", "paytr"}
  MaxRequests = 3
  MaxFaults = 1
  Bookings = {b1}
  Desks = {d1}
  Api = Api
  Lists = {"list", "arrivals"}
  MaxPast = 3
  Wildcard = TRUE
  AskedTables <- TwoReservations
  AskedSizes <- Sizes
  AskedRates <- SomeRates
  AskedLevels <- SomeLevels
  AskedRisks <- SomeRisks
  AskedChannels <- SomeCommissions
  AskedProperties <- PropertiesOfTwoRooms
  AskedTasks <- TaskLists
  AskedArrivals <- NewVip
  AskedStaff = {0, 1, 2, 3}
  AskedStays <- AuditedNights
  AskedRecipients <- Recipients
  AskedEvents = {"none", "reservation.created", "reservation.checked_out"}
  AskedMailings <- MailConfigs
  AskedRatings = {1, 2, 3, 4, 5}
  AskedTopics <- SomeTopics
  AskedHouses <- SomeHouses
  AskedDays = {2}
  AskedDecisions <- SomeVerdicts
  AskedSearches <- Searches
  AskedCancellations <- CancelledSales
  AskedPlans <- DerivedPlans
  AskedLists <- Properties
  AskedLimits <- SomeLimits
  AskedProfiles <- TwoRuleProfiles
  AskedAmounts <- SomeAmounts
  AskedCharges <- SomeCharges
  AskedTries <- Tries
  AskedItems <- TwoRoomItems
  AskedRatePlans <- RatePlans
  AskedNights = {1, 2}
  AskedReports <- OneReport
  AskedPushes <- SomeReports
  AskedMappings <- MappedCodes
  AskedBodies = {"silent", "errors"}
  AskedIds = {"x"}
SYMMETRY Symmetry
INVARIANTS
  ReadyRoomWasInspected
  DirtyRoomHasTask
  NoDuplicateTasks
  StatusIsTrue
  
  ChannelIsCurrent
  OverridesKept
  TaxesAreApplied
  SettingsAreKept
  ErasureHolds
  TaxesHold
  ReportsHold
  
  MessagesHold
  RevenueRulesHold
  HousePlanHolds
  
PROPERTY
  ImplementsTaskLifecycle
CHECK_DEADLOCK FALSE
