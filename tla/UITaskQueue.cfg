SPECIFICATION Spec
CONSTANTS
  UITask = UITask
  None = None
  Posters = {httpd, main_loop}
  QueueLen = 8
INVARIANTS
  TypeOK
  WokenByOwnCommand
  NoDanglingCommand
  NoStaleDone
PROPERTIES
  CallsReturn
  EventuallyConfined
  ImplementsSyncCall
