SPECIFICATION ScreensSpec
CONSTANTS
  Screens = {"session", "cache", "tenants", "sections", "feeds", "tabs", "expenses", "checklists", "calculator"}
  ada = ada
  fay = fay
  eve = eve
  sal = sal
  Users = {ada, sal}
  RoleOf <- MCRoleOf
  NoUser = NoUser
  Typed = {"/register"}
  MaxWire = 2
  Rows = {"r1", "r2"}
  Components = {"ChecklistBoard", "GoalList", "GoalCard", "PlanList", "SalonManagerWidget", "SalonsPage", "SalonFunnelTab", "ProfitTab", "ProfilePage"}
  MaxVersion = 2
  MaxSaves = 1
  Tenants = {"t1"}
  FirstTenants = {"t1"}
  NoTenant = NoTenant
  MaxAdminCalls = 2
  Sections = {"billing", "activity", "audit", "tech"}
  Periods = {"p1", "p2"}
  NoPeriod = NoPeriod
  MaxSectionVisits = 2
  MaxSectionLoads = 2
  Feeds = {"bell", "alerts", "tasks"}
  Items = {"i1"}
  NoCount = NoCount
  MaxFeedVisits = 2
  MaxFeedCalls = 2
  Tabs = {"main", "products", "team", "history", "details", "planfact", "directives"}
  Selections = {"p1", "p2"}
  NoFigures = NoFigures
  MadeUp = MadeUp
  MaxTabLoads = 3
  LastMonth = 2
  MaxFetches = 2
  Ids = {"c1"}
  NoId = NoId
  MaxChanges = 2
  MaxThunks = 2
  Roubles = {0, 60}
  AmountsTyped = {"salePrice", "purchasePrice", "deliveryCost"}
  Percents = {93}
  Discounts = {0, 10}
  TemplateNames = {"sofa"}
  NoName = NoName
  MaxMounts = 2
  MaxTemplates = 1
INVARIANTS
  FrontendTypeOK
  CopiesAgree
  OneAuthCall
  RedirectsSettle
  ReadsOwnWrites
  RowsFollowChanges
  OneLoad
  ChosenIsShown
  BellHasSource
  OneLinkPerVisit
  StoredAsShown
  SelectedIsShown
  FormKeepsItsMonth
  NoRowTwice
  
  ColoursAgree
  WhatTurnsHasACall
CHECK_DEADLOCK FALSE
