CONSTANTS
  Tasks = {t1, t2}
  t1 = t1
  t2 = t2
  TaskRows <- Contents
  Times <- Typed
  MaxSelected = 3
  Gone = Gone
  NoTask = NoTask
  NoPlan = NoPlan
  Closed = Closed
  Listings = {plans, others}
  PlanListing = plans
  Home = Home
  Other = Other
  Form = Form
  Referrer = Referrer
  MaxStack = 2
  OthersTasks <- Lists
SPECIFICATION Spec
INVARIANTS TypeOK SelectionIsBoxes ShownWorkloadIsSaved SuggestionAccepted AverageHoursInRange AverageClose
PROPERTY ReturnsToOrigin
