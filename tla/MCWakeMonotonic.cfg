CONSTANTS
  Resumes = {resume}
  Retries = {retry}
  Plain = {plain}
  Once = {once}
  NoDelivery = NoDelivery
  MaxRetries = 1
  MaxCrashes = 0
  MaxRequests = 0
SPECIFICATION WakeSpec
PROPERTIES
  CounterIsMonotonic
CHECK_DEADLOCK FALSE
