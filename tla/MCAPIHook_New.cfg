SPECIFICATION Spec
CONSTANTS
  t1 = t1  t2 = t2  u1 = u1  u2 = u2
  exe = exe  hookdll = hookdll  lib = lib  dep = dep
  Makers = {t1}
  Callers = {t2}
  UserHooks = {u1, u2}
  Fn <- MCFn
  Everywhere = {u1, u2}
  Modules = {exe, hookdll, lib, dep}
  Initial = {exe, hookdll}
  Own = hookdll
  Needs <- MCNeeds
INVARIANTS TypeOK NoModuleMissed DeadHookGone SearchFindsHook
SYMMETRY MCSymmetry
CHECK_DEADLOCK FALSE
