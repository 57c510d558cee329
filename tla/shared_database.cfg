SPECIFICATION Spec
CONSTANTS
  Tasks = {t1}
  Routes = {main}
  Contents = {v1, v2}
  Callers = {c1, c2}
INVARIANTS
  AnsweredIsDurable
  RoutesAgree
PROPERTIES
  TasksGoForward
