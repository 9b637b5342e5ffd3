SPECIFICATION Spec
CONSTANTS
  Tasks = {httpd, ui, loop}
  httpd = httpd
  Fds = {4, 5}
  None = None
  MAX_LOG_ENTRIES = 2
  MaxLogs = 4
INVARIANT TypeOK
INVARIANT RecentEntries
INVARIANT ClientsAreSessions
INVARIANT BroadcastsWhole
PROPERTY LogsReturn
